---------------------------- MODULE Spec2Model ----------------------------
(***************************************************************************)
(* Market-Data-Feed-Handler: the lock-free SPSCQueue, the MutexQueue and   *)
(* the producer/consumer benchmark harness that drives them.               *)
(*                                                                         *)
(* Every atomic load and store of SPSCQueue is one step; the lock, the     *)
(* container access and the unlock of MutexQueue are one step each.  The   *)
(* steps of the two threads interleave freely.  head_ and tail_ are each   *)
(* accessed by one thread only, and a node's payload is written before the *)
(* release store that links the node and read after the acquire load that  *)
(* finds it, so the interleaving of the steps gives exactly the outcomes   *)
(* the release/acquire orderings of the code allow.                        *)
(*                                                                         *)
(* A node is identified by its allocation number (1 is the sentinel of the *)
(* constructor): an object identity, not an address.                       *)
(***************************************************************************)
EXTENDS Integers, Sequences, FiniteSets, TLC

\* ------------------------------------------------------------------ bounds
\* Number of push calls of the free client (ClientSpec).
MaxPush == 3
\* Largest num_ticks of a benchmark run (Spec).
MaxTicks == 3
\* Number of calls the side-by-side driver makes (PairSpec).
MaxCalls == 4

\* Number of samples a LatencyTracker is given one by one (TrackerSpec).
MaxSamples == 4
\* Width of size_t in bits.  The build has 64; the conversion of a double
\* that size_t cannot hold is undefined whatever the width.
SizeBits == 4
\* Largest reading of the steady clock, in ticks.
MaxClock == 2
\* Largest item count of a ThroughputMeter (MeterSpec).
MaxItems == 3
\* Number of runs of a sweep (SweepSpec).
MaxRuns == 3

\* Payloads the free client pushes.
Values == {10, 20, 30}
\* Latencies (microseconds) the consumer may measure for a tick.
LatencyVals == {1, 2}
\* Samples (microseconds) a LatencyTracker is given in any order, and the
\* ten samples of the percentile scenario, given in this order.
SampleVals == {1, 2, 3}
Scenario == << 1, 2, 3, 4, 5, 6, 7, 8, 9, 10 >>
\* Amounts passed to ThroughputMeter::addItems: none, two, and the largest
\* size_t.
AddCounts == {0, 2, 2^SizeBits - 1}
\* Percentiles asked for, in thousandths: 0.0, 0.25, 0.5, 0.99, 0.999, 1.0,
\* 1.5 and 20.0
Percentiles == {0, 250, 500, 990, 999, 1000, 1500, 20000}

\* nullptr
NoNode == 0
\* std::nullopt and an engaged optional
NullOpt == << >>
Some(v) == << v >>

VARIABLES
    \* ---- lockfree::SPSCQueue
    head_,          \* std::atomic<Node*> head_
    tail_,          \* std::atomic<Node*> tail_
    data,           \* data[n]: Node::data of node n
    next,           \* next[n]: Node::next of node n (NoNode: nullptr)
    deleted,        \* deleted[n]: how many times node n was passed to delete
    fault,          \* TRUE once a field of a deleted node was loaded or stored
    \* ---- lockfree::MutexQueue
    queue_,         \* std::queue<T> queue_
    mutex_,         \* "free", or the thread holding mutex_: "P", "C"
    \* ---- the frame of the push in progress (producer thread)
    p_pc, p_val, new_node, old_tail,
    \* ---- the frame of the pop/empty in progress (consumer thread; the
    \*      destructor's pop once no other thread is left)
    c_pc, old_head, nxt, c_val,
    c_ret,          \* what the last pop returned: NullOpt or Some(v)
    c_empty,        \* what the last empty() returned
    \* ---- the callers
    qtype,          \* which queue the run is instantiated with
    num_ticks,      \* runBenchmark's num_ticks
    p_at, p_i,      \* producerThread: position, loop counter i
    c_at,           \* consumerThread: position
    dtor_at,        \* ~SPSCQueue: position ("none" until it is entered)
    h_pc,           \* runBenchmark: position
    producer_done,  \* std::atomic<bool> producer_done
    \* ---- consumer-side measurement objects
    latencies_micros_,  \* LatencyTracker::latencies_micros_
    tick_count_,        \* AnalyticsEngine's tick count
    item_count_,        \* ThroughputMeter::item_count_
    running_,           \* ThroughputMeter::running_
    ticks_processed,    \* BenchmarkResults::ticks_processed of the run
    \* ---- ThroughputMeter's time points, in ticks of the steady clock
    start_time_,        \* ThroughputMeter::start_time_
    end_time_,          \* ThroughputMeter::end_time_
    now,                \* the latest reading of std::chrono::steady_clock
    started,            \* history: start() was called on the meter
    \* ---- the caller of a LatencyTracker or ThroughputMeter member
    u_call,             \* the last call made: << name >> or << name, argument >>
    u_ret,              \* what it returned: << >> (void), << v >> (a whole
                        \* number) or a quotient << numerator, denominator >>
    \* ---- runComprehensiveBenchmarks and BenchmarkResults::exportToCSV
    all_results,        \* std::vector<BenchmarkResults> all_results
    file,               \* std::ofstream file of exportToCSV: is_open(),
                        \* fail() and the lines written to it
    x_pc,               \* position in runComprehensiveBenchmarks / exportToCSV
    cout,               \* what runComprehensiveBenchmarks writes to std::cout
                        \* after the summary (benchmark.cpp:169)
    \* ---- the side-by-side driver
    d_pc, d_op, d_n, d_spsc, d_mutex, d_abs, d_want,
    \* ---- history
    pushed,         \* values passed to push, in call order
    linked,         \* number of pushes that took effect (the node is linked,
                    \* lockfree_queue.h:70; queue_.push is done, mutex_queue.h:37)
    popped          \* values returned by non-empty pops, in return order

spscVars  == << head_, tail_, data, next, deleted, fault >>
mutexVars == << queue_, mutex_ >>
pFrame    == << p_pc, p_val, new_node, old_tail >>
cFrame    == << c_pc, old_head, nxt, c_val, c_ret, c_empty >>
runVars   == << qtype, num_ticks, p_at, p_i, c_at, dtor_at, h_pc,
               producer_done >>
meterVars == << latencies_micros_, tick_count_, item_count_, running_,
               ticks_processed >>
clockVars == << start_time_, end_time_, now, started >>
unitVars  == << u_call, u_ret, all_results, file, x_pc, cout >>
pairVars  == << d_pc, d_op, d_n, d_spsc, d_mutex, d_abs, d_want >>
histVars  == << pushed, linked, popped >>

\* What a queue step of the producer's frame, and of the consumer's, leaves alone.
othersP == << cFrame, runVars, meterVars,
              clockVars, unitVars, pairVars, pushed, popped >>
othersC == << pFrame, runVars, meterVars,
              clockVars, unitVars, pairVars, pushed, linked >>
\* What a step of the destructor leaves alone.
othersD == << mutexVars, pFrame, qtype, num_ticks, p_at, p_i, c_at, h_pc,
             producer_done, meterVars,
             clockVars, unitVars, pairVars, histVars >>

vars == << spscVars, mutexVars, pFrame, cFrame, runVars, meterVars,
           clockVars, unitVars,
           pairVars, histVars >>

\* ------------------------------------------------------------ SPSCQueue
\* A node that was allocated and not deleted.
Live(n) == n \in 1..Len(deleted) /\ deleted[n] = 0

\* What a load of n->next can yield: the stored link, or anything when the
\* node was deleted (use after free).
LoadNext(n) == IF Live(n) THEN {next[n]} ELSE 0..Len(next)

\* What a read of n->data can yield.
LoadData(n) == IF Live(n) THEN {data[n]} ELSE Values \cup (0..MaxTicks)

\* fault after an access to a field of node n.
Touch(n) == fault \/ ~Live(n)

\* delete n
Delete(n) == [deleted EXCEPT ![n] = @ + 1]


\* SPSCQueue(): one dummy node holding T{}, head_ and tail_ both on it.
SPSCInit ==
    /\ data = << 0 >>
    /\ next = << NoNode >>
    /\ deleted = << 0 >>
    /\ head_ = 1
    /\ tail_ = 1
    /\ fault = FALSE

\* A push of a bounded queue, which waits for room.
PushNew_Bounded ==
    /\ p_pc = "push_new"
    /\ linked - Len(popped) < 2
    /\ data' = Append(data, p_val)
    /\ next' = Append(next, NoNode)
    /\ deleted' = Append(deleted, 0)
    /\ new_node' = Len(data) + 1
    /\ p_pc' = "push_init_next"
    /\ UNCHANGED << head_, tail_, fault, p_val, old_tail >>
    /\ UNCHANGED << mutexVars, othersP, linked >>

\* push, line 65: new Node(value); the constructor sets data and next.
PushNew ==
    /\ p_pc = "push_new"
    /\ data' = Append(data, p_val)
    /\ next' = Append(next, NoNode)
    /\ deleted' = Append(deleted, 0)
    /\ new_node' = Len(data) + 1
    /\ p_pc' = "push_init_next"
    /\ UNCHANGED << head_, tail_, fault, p_val, old_tail >>
    /\ UNCHANGED << mutexVars, othersP, linked >>

\* push, line 66: new_node->next.store(nullptr)
PushInitNext ==
    /\ p_pc = "push_init_next"
    /\ next' = [next EXCEPT ![new_node] = NoNode]
    /\ fault' = Touch(new_node)
    /\ p_pc' = "push_load_tail"
    /\ UNCHANGED << head_, tail_, data, deleted, p_val, new_node, old_tail >>
    /\ UNCHANGED << mutexVars, othersP, linked >>

\* push, line 69: old_tail = tail_.load()
PushLoadTail ==
    /\ p_pc = "push_load_tail"
    /\ old_tail' = tail_
    /\ p_pc' = "push_link"
    /\ UNCHANGED << spscVars, p_val, new_node >>
    /\ UNCHANGED << mutexVars, othersP, linked >>

\* push, line 70: old_tail->next.store(new_node)
PushLink ==
    /\ p_pc = "push_link"
    /\ next' = [next EXCEPT ![old_tail] = new_node]
    /\ fault' = Touch(old_tail)
    /\ p_pc' = "push_store_tail"
    /\ UNCHANGED << head_, tail_, data, deleted, p_val, new_node, old_tail >>
    /\ linked' = linked + 1
    /\ UNCHANGED << mutexVars, othersP >>

\* A push that leaves tail_ on the node it linked from.
PushStoreTail_Stale ==
    /\ p_pc = "push_store_tail"
    /\ tail_' = old_tail
    /\ p_pc' = "push_ret"
    /\ UNCHANGED << head_, data, next, deleted, fault, p_val, new_node,
                    old_tail >>
    /\ UNCHANGED << mutexVars, othersP, linked >>

\* push, line 71: tail_.store(new_node), and the return.
PushStoreTail ==
    /\ p_pc = "push_store_tail"
    /\ tail_' = new_node
    /\ p_pc' = "push_ret"
    /\ UNCHANGED << head_, data, next, deleted, fault, p_val, new_node,
                    old_tail >>
    /\ UNCHANGED << mutexVars, othersP, linked >>

\* A pop that starts from tail_.
PopLoadHead_FromTail ==
    /\ c_pc = "pop_load_head"
    /\ old_head' = tail_
    /\ c_pc' = "pop_load_next"
    /\ UNCHANGED << spscVars, nxt, c_val, c_ret, c_empty >>
    /\ UNCHANGED << mutexVars, othersC, popped >>

\* pop, line 79: old_head = head_.load()
PopLoadHead ==
    /\ c_pc = "pop_load_head"
    /\ old_head' = head_
    /\ c_pc' = "pop_load_next"
    /\ UNCHANGED << spscVars, nxt, c_val, c_ret, c_empty >>
    /\ UNCHANGED << mutexVars, othersC, popped >>

\* A pop that stores next into head_ before it tests next for nullptr.
PopLoadNext_StoreFirst ==
    /\ c_pc = "pop_load_next"
    /\ \E x \in LoadNext(old_head) :
          /\ nxt' = x
          /\ head_' = x
          /\ IF x = NoNode
                THEN c_ret' = NullOpt /\ c_pc' = "pop_ret"
                ELSE c_ret' = c_ret /\ c_pc' = "pop_read_data"
    /\ fault' = Touch(old_head)
    /\ UNCHANGED << tail_, data, next, deleted, old_head, c_val, c_empty >>
    /\ UNCHANGED << mutexVars, othersC, popped >>

\* pop, lines 80-85: next = old_head->next.load(); nullptr returns nullopt.
PopLoadNext ==
    /\ c_pc = "pop_load_next"
    /\ \E x \in LoadNext(old_head) :
          /\ nxt' = x
          /\ IF x = NoNode
                THEN c_ret' = NullOpt /\ c_pc' = "pop_ret"
                ELSE c_ret' = c_ret /\ c_pc' = "pop_read_data"
    /\ fault' = Touch(old_head)
    /\ UNCHANGED << head_, tail_, data, next, deleted, old_head, c_val,
                    c_empty >>
    /\ UNCHANGED << mutexVars, othersC, popped >>

\* pop, line 88: value = next->data
PopReadData ==
    /\ c_pc = "pop_read_data"
    /\ \E v \in LoadData(nxt) : c_val' = v
    /\ fault' = Touch(nxt)
    /\ c_pc' = "pop_store_head"
    /\ UNCHANGED << head_, tail_, data, next, deleted, old_head, nxt, c_ret,
                    c_empty >>
    /\ UNCHANGED << mutexVars, othersC, popped >>

\* A pop that forgets to advance head_.
PopStoreHead_Stuck ==
    /\ c_pc = "pop_store_head"
    /\ head_' = old_head
    /\ c_pc' = "pop_delete"
    /\ UNCHANGED << tail_, data, next, deleted, fault, old_head, nxt, c_val,
                    c_ret, c_empty >>
    /\ UNCHANGED << mutexVars, othersC, popped >>

\* A pop that also moves tail_ to the new head.
PopStoreHead_TouchTail ==
    /\ c_pc = "pop_store_head"
    /\ head_' = nxt
    /\ tail_' = nxt
    /\ c_pc' = "pop_delete"
    /\ UNCHANGED << data, next, deleted, fault, old_head, nxt, c_val,
                    c_ret, c_empty >>
    /\ UNCHANGED << mutexVars, othersC, popped >>

\* pop, line 91: head_.store(next)
PopStoreHead ==
    /\ c_pc = "pop_store_head"
    /\ head_' = nxt
    /\ c_pc' = "pop_delete"
    /\ UNCHANGED << tail_, data, next, deleted, fault, old_head, nxt, c_val,
                    c_ret, c_empty >>
    /\ UNCHANGED << mutexVars, othersC, popped >>

\* A pop that deletes the node it has just moved head_ to.
PopDelete_Next ==
    /\ c_pc = "pop_delete"
    /\ deleted' = Delete(nxt)
    /\ c_ret' = Some(c_val)
    /\ c_pc' = "pop_ret"
    /\ UNCHANGED << head_, tail_, data, next, fault, old_head, nxt, c_val,
                    c_empty >>
    /\ popped' = Append(popped, c_val)
    /\ UNCHANGED << mutexVars, othersC >>

\* pop, lines 94-96: delete old_head; return value
PopDelete ==
    /\ c_pc = "pop_delete"
    /\ deleted' = Delete(old_head)
    /\ c_ret' = Some(c_val)
    /\ c_pc' = "pop_ret"
    /\ UNCHANGED << head_, tail_, data, next, fault, old_head, nxt, c_val,
                    c_empty >>
    /\ popped' = Append(popped, c_val)
    /\ UNCHANGED << mutexVars, othersC >>

\* empty, line 104: head = head_.load()  (the local is kept in old_head)
EmptyLoadHead ==
    /\ c_pc = "empty_load_head"
    /\ old_head' = head_
    /\ c_pc' = "empty_load_next"
    /\ UNCHANGED << spscVars, nxt, c_val, c_ret, c_empty >>
    /\ UNCHANGED << mutexVars, othersC, popped >>

\* An empty() that reports the opposite.
EmptyLoadNext_Inverted ==
    /\ c_pc = "empty_load_next"
    /\ \E x \in LoadNext(old_head) :
          /\ nxt' = x
          /\ c_empty' = (x # NoNode)
    /\ fault' = Touch(old_head)
    /\ c_pc' = "empty_ret"
    /\ UNCHANGED << head_, tail_, data, next, deleted, old_head, c_val,
                    c_ret >>
    /\ UNCHANGED << mutexVars, othersC, popped >>

\* empty, lines 105-106: next = head->next.load(); return next == nullptr
EmptyLoadNext ==
    /\ c_pc = "empty_load_next"
    /\ \E x \in LoadNext(old_head) :
          /\ nxt' = x
          /\ c_empty' = (x = NoNode)
    /\ fault' = Touch(old_head)
    /\ c_pc' = "empty_ret"
    /\ UNCHANGED << head_, tail_, data, next, deleted, old_head, c_val,
                    c_ret >>
    /\ UNCHANGED << mutexVars, othersC, popped >>

\* ~SPSCQueue, line 49: while (pop()) {}  -- the call
DtorCallPop ==
    /\ dtor_at = "loop"
    /\ c_pc' = "pop_load_head"
    /\ dtor_at' = "in_pop"
    /\ UNCHANGED << spscVars, old_head, nxt, c_val, c_ret, c_empty >>
    /\ UNCHANGED othersD

\* A destructor that pops once instead of draining.
DtorAfterPop_Once ==
    /\ dtor_at = "in_pop"
    /\ c_pc = "pop_ret"
    /\ c_pc' = "idle"
    /\ dtor_at' = "load_head"
    /\ old_head' = NoNode /\ nxt' = NoNode /\ c_val' = 0
    /\ UNCHANGED << spscVars, c_ret, c_empty >>
    /\ UNCHANGED othersD

\* ~SPSCQueue, line 49: the loop test on what pop returned
DtorAfterPop ==
    /\ dtor_at = "in_pop"
    /\ c_pc = "pop_ret"
    /\ c_pc' = "idle"
    /\ dtor_at' = IF c_ret # NullOpt THEN "loop" ELSE "load_head"
    /\ old_head' = NoNode /\ nxt' = NoNode /\ c_val' = 0
    /\ UNCHANGED << spscVars, c_ret, c_empty >>
    /\ UNCHANGED othersD

\* ~SPSCQueue, line 52: head = head_.load()
DtorLoadHead ==
    /\ dtor_at = "load_head"
    /\ old_head' = head_
    /\ dtor_at' = "delete"
    /\ UNCHANGED << spscVars, c_pc, nxt, c_val, c_ret, c_empty >>
    /\ UNCHANGED othersD

\* ~SPSCQueue, line 53: delete head
DtorDelete ==
    /\ dtor_at = "delete"
    /\ deleted' = Delete(old_head)
    /\ dtor_at' = "destroyed"
    /\ UNCHANGED << head_, tail_, data, next, fault, c_pc, old_head, nxt,
                    c_val, c_ret, c_empty >>
    /\ UNCHANGED othersD

\* ------------------------------------------------------------ MutexQueue
\* MutexQueue() = default
MutexInit ==
    /\ queue_ = << >>
    /\ mutex_ = "free"

\* push, line 36: lock_guard acquires mutex_
MPushLock ==
    /\ p_pc = "m_push_lock"
    /\ mutex_ = "free"
    /\ mutex_' = "P"
    /\ p_pc' = "m_push_push"
    /\ UNCHANGED << queue_, p_val, new_node, old_tail >>
    /\ UNCHANGED << spscVars, othersP, linked >>

\* push, line 37: queue_.push(value)
MPushPush ==
    /\ p_pc = "m_push_push"
    /\ queue_' = Append(queue_, p_val)
    /\ p_pc' = "m_push_unlock"
    /\ UNCHANGED << mutex_, p_val, new_node, old_tail >>
    /\ linked' = linked + 1
    /\ UNCHANGED << spscVars, othersP >>

\* push, line 38: the lock_guard goes out of scope
MPushUnlock ==
    /\ p_pc = "m_push_unlock"
    /\ mutex_' = "free"
    /\ p_pc' = "push_ret"
    /\ UNCHANGED << queue_, p_val, new_node, old_tail >>
    /\ UNCHANGED << spscVars, othersP, linked >>

\* pop, line 45: lock_guard acquires mutex_
MPopLock ==
    /\ c_pc = "m_pop_lock"
    /\ mutex_ = "free"
    /\ mutex_' = "C"
    /\ c_pc' = "m_pop_check"
    /\ UNCHANGED << queue_, old_head, nxt, c_val, c_ret, c_empty >>
    /\ UNCHANGED << spscVars, othersC, popped >>

\* pop, line 47: if (queue_.empty())
MPopCheck ==
    /\ c_pc = "m_pop_check"
    /\ c_pc' = IF queue_ = << >> THEN "m_pop_ret_empty" ELSE "m_pop_front"
    /\ UNCHANGED << mutexVars, old_head, nxt, c_val, c_ret, c_empty >>
    /\ UNCHANGED << spscVars, othersC, popped >>

\* A pop whose early return leaves mutex_ locked.
MPopReturnEmpty_KeepLock ==
    /\ c_pc = "m_pop_ret_empty"
    /\ c_ret' = NullOpt
    /\ mutex_' = mutex_
    /\ c_pc' = "pop_ret"
    /\ UNCHANGED << queue_, old_head, nxt, c_val, c_empty >>
    /\ UNCHANGED << spscVars, othersC, popped >>

\* pop, line 48: return std::nullopt; the lock_guard goes out of scope
MPopReturnEmpty ==
    /\ c_pc = "m_pop_ret_empty"
    /\ c_ret' = NullOpt
    /\ mutex_' = "free"
    /\ c_pc' = "pop_ret"
    /\ UNCHANGED << queue_, old_head, nxt, c_val, c_empty >>
    /\ UNCHANGED << spscVars, othersC, popped >>

\* pop, line 51: value = queue_.front()
MPopFront ==
    /\ c_pc = "m_pop_front"
    /\ c_val' = Head(queue_)
    /\ c_pc' = "m_pop_pop"
    /\ UNCHANGED << mutexVars, old_head, nxt, c_ret, c_empty >>
    /\ UNCHANGED << spscVars, othersC, popped >>

\* pop, line 52: queue_.pop()
MPopPop ==
    /\ c_pc = "m_pop_pop"
    /\ queue_' = Tail(queue_)
    /\ c_pc' = "m_pop_ret_value"
    /\ UNCHANGED << mutex_, old_head, nxt, c_val, c_ret, c_empty >>
    /\ UNCHANGED << spscVars, othersC, popped >>

\* pop, line 53: return value; the lock_guard goes out of scope
MPopReturnValue ==
    /\ c_pc = "m_pop_ret_value"
    /\ c_ret' = Some(c_val)
    /\ mutex_' = "free"
    /\ c_pc' = "pop_ret"
    /\ UNCHANGED << queue_, old_head, nxt, c_val, c_empty >>
    /\ popped' = Append(popped, c_val)
    /\ UNCHANGED << spscVars, othersC >>

\* empty, line 61: lock_guard acquires mutex_
MEmptyLock ==
    /\ c_pc = "m_empty_lock"
    /\ mutex_ = "free"
    /\ mutex_' = "C"
    /\ c_pc' = "m_empty_read"
    /\ UNCHANGED << queue_, old_head, nxt, c_val, c_ret, c_empty >>
    /\ UNCHANGED << spscVars, othersC, popped >>

\* empty, line 62: the value of queue_.empty()
MEmptyRead ==
    /\ c_pc = "m_empty_read"
    /\ c_empty' = (queue_ = << >>)
    /\ c_pc' = "m_empty_unlock"
    /\ UNCHANGED << mutexVars, old_head, nxt, c_val, c_ret >>
    /\ UNCHANGED << spscVars, othersC, popped >>

\* empty, line 63: the return; the lock_guard goes out of scope
MEmptyUnlock ==
    /\ c_pc = "m_empty_unlock"
    /\ mutex_' = "free"
    /\ c_pc' = "empty_ret"
    /\ UNCHANGED << queue_, old_head, nxt, c_val, c_ret, c_empty >>
    /\ UNCHANGED << spscVars, othersC, popped >>

\* ------------------------------------------------------- calls and returns
\* The first step of push / pop / empty of queue type q.
PushEntry(q)  == IF q = "spsc" THEN "push_new" ELSE "m_push_lock"
PopEntry(q)   == IF q = "spsc" THEN "pop_load_head" ELSE "m_pop_lock"
EmptyEntry(q) == IF q = "spsc" THEN "empty_load_head" ELSE "m_empty_lock"

\* No call in progress, locals not yet set.
FramesIdle ==
    /\ p_pc = "idle" /\ p_val = 0 /\ new_node = NoNode /\ old_tail = NoNode
    /\ c_pc = "idle" /\ old_head = NoNode /\ nxt = NoNode /\ c_val = 0
    /\ c_ret = NullOpt /\ c_empty = FALSE

\* LatencyTracker, AnalyticsEngine(100) and ThroughputMeter as constructed.
MetersInit ==
    /\ latencies_micros_ = << >>
    /\ tick_count_ = 0
    /\ item_count_ = 0
    /\ running_ = FALSE
    /\ ticks_processed = 0

\* The meter's time points as constructed (time_point() is the clock's
\* epoch) and a clock not read yet.
ClockInit ==
    /\ start_time_ = 0
    /\ end_time_ = 0
    /\ now = 0
    /\ started = FALSE

\* No tracker or meter query made, no sweep under way.
UnitOff ==
    /\ u_call = << "none" >> /\ u_ret = << >>
    /\ all_results = << >>
    /\ file = [is_open |-> FALSE, fail |-> FALSE, text |-> << >>]
    /\ x_pc = "off" /\ cout = << >>

HistInit == pushed = << >> /\ linked = 0 /\ popped = << >>

\* The side-by-side driver is not part of this run.
PairOff ==
    /\ d_pc = "off" /\ d_op = << >> /\ d_n = 0
    /\ d_spsc = << >> /\ d_mutex = << >> /\ d_abs = << >> /\ d_want = << >>

\* The push frame is left.
PushFrameGone ==
    /\ p_pc' = "idle" /\ p_val' = 0 /\ new_node' = NoNode /\ old_tail' = NoNode

\* The pop/empty frame is left; the caller keeps what was returned.
PopFrameGone ==
    /\ c_pc' = "idle" /\ old_head' = NoNode /\ nxt' = NoNode /\ c_val' = 0
    /\ UNCHANGED << c_ret, c_empty >>

\* ------------------------------------- LatencyTracker, ThroughputMeter
\* A sample is a whole number of microseconds.  A percentile is given in
\* thousandths (0.50 is 500, 0.99 is 990, 0.999 is 999), and its product
\* with the sample count is exact.  A double that need not be a whole
\* number (a mean, a rate) is the pair of its numerator and denominator.
Quot(a, b) == << a, b >>

\* std::sort(sorted.begin(), sorted.end()): the elements in ascending order.
RECURSIVE sort(_)
sort(s) ==
    IF s = << >>
       THEN s
       ELSE LET x    == s[Len(s)]
                t    == sort(SubSeq(s, 1, Len(s) - 1))
                k    == Cardinality({j \in 1..Len(t) : t[j] <= x})
            IN  SubSeq(t, 1, k) \o << x >> \o SubSeq(t, k + 1, Len(t))

\* std::accumulate(begin, end, 0.0)
RECURSIVE accumulate(_)
accumulate(s) == IF s = << >> THEN 0 ELSE s[1] + accumulate(Tail(s))

\* The largest value of size_t.
SizeMax == 2^SizeBits - 1

\* static_cast<size_t>(x) of a double x >= 0 with integral part q: q when
\* size_t can hold it, and undefined otherwise: any value of size_t.
CastToSizeT(q) == IF q <= SizeMax THEN {q} ELSE 0..SizeMax

\* A getPercentile that indexes the samples in the order they were added.
getPercentile_NoSort(percentile) ==
    IF latencies_micros_ = << >>
       THEN {0}
       ELSE LET sorted == latencies_micros_
            IN  { IF index >= Len(sorted)
                     THEN sorted[(Len(sorted) - 1) + 1]
                     ELSE sorted[index + 1] :
                  index \in CastToSizeT((percentile * Len(sorted)) \div 1000) }

\* LatencyTracker::getPercentile, lines 37-47: what it can return for the
\* percentile given in thousandths (one value unless the cast is undefined).
\* sorted[i] of the code is sorted[i + 1] here: sequences are indexed from 1.
getPercentile(percentile) ==
    IF latencies_micros_ = << >>
       THEN {0}
       ELSE LET sorted == sort(latencies_micros_)
            IN  { IF index >= Len(sorted)
                     THEN sorted[(Len(sorted) - 1) + 1]
                     ELSE sorted[index + 1] :
                  index \in CastToSizeT((percentile * Len(sorted)) \div 1000) }

\* LatencyTracker::getP50, getP99, getP999, lines 52, 57, 62
getP50  == getPercentile(500)
getP99  == getPercentile(990)
getP999 == getPercentile(999)

\* LatencyTracker::getMean, lines 67-70
getMean ==
    IF latencies_micros_ = << >>
       THEN Quot(0, 1)
       ELSE Quot(accumulate(latencies_micros_), Len(latencies_micros_))

\* A getMin that returns the first sample.
getMin_First ==
    IF latencies_micros_ = << >> THEN 0 ELSE latencies_micros_[1]

\* LatencyTracker::getMin, lines 75-78: *std::min_element
getMin ==
    IF latencies_micros_ = << >>
       THEN 0
       ELSE CHOOSE x \in {latencies_micros_[j] : j \in DOMAIN latencies_micros_} :
               \A j \in DOMAIN latencies_micros_ : x <= latencies_micros_[j]

\* A getMax that returns the sample added last.
getMax_Last ==
    IF latencies_micros_ = << >>
       THEN 0
       ELSE latencies_micros_[Len(latencies_micros_)]

\* LatencyTracker::getMax, lines 83-86: *std::max_element
getMax ==
    IF latencies_micros_ = << >>
       THEN 0
       ELSE CHOOSE x \in {latencies_micros_[j] : j \in DOMAIN latencies_micros_} :
               \A j \in DOMAIN latencies_micros_ : x >= latencies_micros_[j]

\* LatencyTracker::getCount, line 91
getCount == Len(latencies_micros_)

\* LatencyTracker::addLatency, lines 28-30
addLatency(latency_micros) ==
    latencies_micros_' = Append(latencies_micros_, latency_micros)

\* LatencyTracker::reset, lines 96-98
reset == latencies_micros_' = << >>

\* A start() that keeps the items counted so far.
start_KeepCount ==
    /\ \E t \in now..MaxClock : now' = t /\ start_time_' = t
    /\ item_count_' = item_count_
    /\ running_' = TRUE
    /\ started' = TRUE
    /\ UNCHANGED end_time_

\* ThroughputMeter::start, lines 117-121; t is what steady_clock::now()
\* reads, no earlier than the latest reading.
start ==
    /\ \E t \in now..MaxClock : now' = t /\ start_time_' = t
    /\ item_count_' = 0
    /\ running_' = TRUE
    /\ started' = TRUE
    /\ UNCHANGED end_time_

\* ThroughputMeter::stop, lines 126-129
stop ==
    /\ \E t \in now..MaxClock : now' = t /\ end_time_' = t
    /\ running_' = FALSE
    /\ UNCHANGED << item_count_, start_time_, started >>

\* ThroughputMeter::addItem, lines 134-136; size_t arithmetic wraps.
addItem ==
    /\ item_count_' = (item_count_ + 1) % 2^SizeBits
    /\ UNCHANGED << running_, clockVars >>

\* ThroughputMeter::addItems, lines 141-143; size_t arithmetic wraps.
addItems(count) ==
    /\ item_count_' = (item_count_ + count) % 2^SizeBits
    /\ UNCHANGED << running_, clockVars >>

\* The duration of lines 151-153 and 165-167, steady_clock::now() reading t.
duration(t) == IF running_ THEN t - start_time_ ELSE end_time_ - start_time_

\* ThroughputMeter::getThroughput, lines 148-159
getThroughput(t) ==
    IF item_count_ = 0
       THEN Quot(0, 1)
       ELSE LET seconds == duration(t)
            IN  IF seconds = 0 THEN Quot(0, 1) ELSE Quot(item_count_, seconds)

\* ThroughputMeter::getElapsedSeconds, lines 164-169
getElapsedSeconds(t) == duration(t)

\* ThroughputMeter::getItemCount, line 174
getItemCount == item_count_

\* ------------------------------------------------ a free client (ClientSpec)
\* One producer thread calling push, one consumer thread calling pop and
\* empty, in any order and number; the queue is destroyed once both are idle.
ClientInit ==
    /\ SPSCInit /\ MutexInit /\ FramesIdle /\ MetersInit /\ ClockInit /\ UnitOff
    /\ HistInit /\ PairOff
    /\ qtype \in {"spsc", "mutex"}
    /\ num_ticks = 0 /\ p_i = 0 /\ producer_done = FALSE
    /\ p_at = "client" /\ c_at = "client" /\ h_pc = "client"
    /\ dtor_at = "none"

ClientPush ==
    /\ p_at = "client"
    /\ p_pc = "idle"
    /\ Len(pushed) < MaxPush
    /\ \E v \in Values :
          /\ p_val' = v
          /\ pushed' = Append(pushed, v)
    /\ p_pc' = PushEntry(qtype)
    /\ p_at' = "client_call"
    /\ UNCHANGED << dtor_at, spscVars, mutexVars, cFrame, new_node, old_tail, qtype,
                    num_ticks, p_i, c_at, h_pc, producer_done, meterVars,
                    clockVars, unitVars,
                    pairVars, linked, popped >>

ClientPushReturn ==
    /\ p_at = "client_call"
    /\ p_pc = "push_ret"
    /\ PushFrameGone
    /\ p_at' = "client"
    /\ UNCHANGED << dtor_at, spscVars, mutexVars, cFrame, qtype, num_ticks,
                    p_i, c_at,
                    h_pc, producer_done, meterVars,
                    clockVars, unitVars, pairVars, histVars >>

\* The producer thread makes no further push.
ClientStop ==
    /\ p_at = "client"
    /\ p_at' = "stopped"
    /\ UNCHANGED << dtor_at, spscVars, mutexVars, pFrame, cFrame, qtype, num_ticks,
                    p_i, c_at, h_pc, producer_done, meterVars,
                    clockVars, unitVars, pairVars,
                    histVars >>

ClientPop ==
    /\ c_at = "client"
    /\ c_pc = "idle"
    /\ c_pc' = PopEntry(qtype)
    /\ c_at' = "client_pop"
    /\ UNCHANGED << dtor_at, spscVars, mutexVars, pFrame, old_head, nxt, c_val, c_ret,
                    c_empty, qtype, num_ticks, p_at, p_i, h_pc, producer_done,
                    meterVars, clockVars, unitVars, pairVars, histVars >>

ClientEmpty ==
    /\ c_at = "client"
    /\ c_pc = "idle"
    /\ c_pc' = EmptyEntry(qtype)
    /\ c_at' = "client_empty"
    /\ UNCHANGED << dtor_at, spscVars, mutexVars, pFrame, old_head, nxt, c_val, c_ret,
                    c_empty, qtype, num_ticks, p_at, p_i, h_pc, producer_done,
                    meterVars, clockVars, unitVars, pairVars, histVars >>

ClientReturn ==
    /\ \/ c_at = "client_pop" /\ c_pc = "pop_ret"
       \/ c_at = "client_empty" /\ c_pc = "empty_ret"
    /\ PopFrameGone
    /\ c_at' = "client"
    /\ UNCHANGED << dtor_at, spscVars, mutexVars, pFrame, qtype, num_ticks, p_at, p_i,
                    h_pc, producer_done, meterVars,
                    clockVars, unitVars, pairVars, histVars >>

\* The SPSCQueue goes out of scope with no thread inside a call.
ClientDestroy ==
    /\ qtype = "spsc"
    /\ p_at \in {"client", "stopped"}
    /\ c_at = "client"
    /\ p_at' = "ended"
    /\ c_at' = "ended"
    /\ dtor_at' = "loop"
    /\ UNCHANGED << spscVars, mutexVars, pFrame, cFrame, qtype, num_ticks,
                    p_i, h_pc, producer_done, meterVars,
                    clockVars, unitVars, pairVars, histVars >>

\* The steps inside SPSCQueue and MutexQueue.
PushStep ==
    \/ PushNew \/ PushInitNext \/ PushLoadTail \/ PushLink \/ PushStoreTail
    \/ MPushLock \/ MPushPush \/ MPushUnlock

PopStep ==
    \/ PopLoadHead \/ PopLoadNext \/ PopReadData \/ PopStoreHead \/ PopDelete
    \/ MPopLock \/ MPopCheck \/ MPopReturnEmpty \/ MPopFront \/ MPopPop
    \/ MPopReturnValue

EmptyStep ==
    \/ EmptyLoadHead \/ EmptyLoadNext
    \/ MEmptyLock \/ MEmptyRead \/ MEmptyUnlock

DtorStep == DtorCallPop \/ DtorAfterPop \/ DtorLoadHead \/ DtorDelete

ClientNext ==
    \/ ClientPush \/ ClientPushReturn \/ ClientStop
    \/ ClientPop \/ ClientEmpty \/ ClientReturn \/ ClientDestroy
    \/ PushStep \/ PopStep \/ EmptyStep \/ DtorStep

ClientSpec == ClientInit /\ [][ClientNext]_vars

\* ------------------------------------------------- runBenchmark (Spec)
\* benchmark.cpp lines 85-91: the queue, producer_done{false}, the analytics
\* engine, the tracker and the meter; no thread launched yet.
Init ==
    /\ SPSCInit /\ MutexInit /\ FramesIdle /\ MetersInit /\ ClockInit /\ UnitOff
    /\ HistInit /\ PairOff
    /\ qtype \in {"spsc", "mutex"}
    /\ num_ticks \in 0..MaxTicks
    /\ p_i = 0 /\ producer_done = FALSE
    /\ p_at = "unstarted" /\ c_at = "unstarted" /\ h_pc = "spawn_producer"
    /\ dtor_at = "none"

\* What a step of runBenchmark's own thread leaves alone.
othersH == << spscVars, mutexVars, pFrame, cFrame, qtype, num_ticks, p_i,
             producer_done, latencies_micros_, tick_count_, item_count_,
             running_, clockVars, unitVars, pairVars, histVars >>

\* runBenchmark, line 94: std::thread producer(producerThread, ...)
HarnessSpawnProducer ==
    /\ h_pc = "spawn_producer"
    /\ p_at' = "loop"
    /\ h_pc' = "spawn_consumer"
    /\ UNCHANGED << othersH, c_at, dtor_at, ticks_processed >>

\* runBenchmark, line 96: std::thread consumer(consumerThread, ...)
HarnessSpawnConsumer ==
    /\ h_pc = "spawn_consumer"
    /\ c_at' = "start"
    /\ h_pc' = "join_producer"
    /\ UNCHANGED << othersH, p_at, dtor_at, ticks_processed >>

\* runBenchmark, line 101: producer.join()
HarnessJoinProducer ==
    /\ h_pc = "join_producer"
    /\ p_at = "finished"
    /\ h_pc' = "join_consumer"
    /\ UNCHANGED << othersH, p_at, c_at, dtor_at, ticks_processed >>

\* A runBenchmark that does not wait for the consumer thread.
HarnessJoinConsumer_NoWait ==
    /\ h_pc = "join_consumer"
    /\ h_pc' = "collect"
    /\ UNCHANGED << othersH, p_at, c_at, dtor_at, ticks_processed >>

\* runBenchmark, line 102: consumer.join()
HarnessJoinConsumer ==
    /\ h_pc = "join_consumer"
    /\ c_at = "finished"
    /\ h_pc' = "collect"
    /\ UNCHANGED << othersH, p_at, c_at, dtor_at, ticks_processed >>

\* runBenchmark, lines 105-115: results.ticks_processed = getCount(), ...
HarnessCollect ==
    /\ h_pc = "collect"
    /\ ticks_processed' = Len(latencies_micros_)
    /\ h_pc' = "destroy"
    /\ UNCHANGED << othersH, p_at, c_at, dtor_at >>

\* runBenchmark, line 123: the return destroys the queue.  ~SPSCQueue runs
\* on this thread; MutexQueue has the implicit destructor.
HarnessDestroy ==
    /\ h_pc = "destroy"
    /\ IF qtype = "spsc"
          THEN dtor_at' = "loop" /\ h_pc' = "in_dtor"
          ELSE dtor_at' = dtor_at /\ h_pc' = "returned"
    /\ UNCHANGED << othersH, p_at, c_at, ticks_processed >>

\* runBenchmark, line 123: ~SPSCQueue has returned.
HarnessReturn ==
    /\ h_pc = "in_dtor"
    /\ dtor_at = "destroyed"
    /\ h_pc' = "returned"
    /\ UNCHANGED << othersH, p_at, c_at, dtor_at, ticks_processed >>

\* What a step of producerThread's own code leaves alone.
othersPT == << spscVars, mutexVars, cFrame, qtype, num_ticks, c_at, dtor_at,
              h_pc,
              meterVars, clockVars, unitVars, pairVars, linked, popped >>

\* A producer that sets the flag when it starts its last push.
ProducerLoop_DoneBeforePush ==
    /\ p_at = "loop"
    /\ p_i < num_ticks
    /\ p_val' = p_i + 1
    /\ pushed' = Append(pushed, p_i + 1)
    /\ p_pc' = PushEntry(qtype)
    /\ p_at' = "in_push"
    /\ producer_done' = (producer_done \/ p_i + 1 = num_ticks)
    /\ UNCHANGED << othersPT, new_node, old_tail, p_i >>

\* producerThread, lines 25-27: i < num_ticks; tick = generateTick();
\* queue.push(tick).  The i-th tick is modelled by its number i + 1.
ProducerLoop ==
    /\ p_at = "loop"
    /\ p_i < num_ticks
    /\ p_val' = p_i + 1
    /\ pushed' = Append(pushed, p_i + 1)
    /\ p_pc' = PushEntry(qtype)
    /\ p_at' = "in_push"
    /\ UNCHANGED << othersPT, new_node, old_tail, p_i, producer_done >>

\* producerThread, line 25: push has returned; i++
ProducerPushReturn ==
    /\ p_at = "in_push"
    /\ p_pc = "push_ret"
    /\ PushFrameGone
    /\ p_i' = p_i + 1
    /\ p_at' = "loop"
    /\ UNCHANGED << othersPT, pushed, producer_done >>

\* A producer that ends without setting the flag.
ProducerDone_NoFlag ==
    /\ p_at = "loop"
    /\ ~(p_i < num_ticks)
    /\ producer_done' = producer_done
    /\ p_at' = "finished"
    /\ UNCHANGED << othersPT, pFrame, p_i, pushed >>

\* producerThread, line 30: done.store(true) once i < num_ticks fails
ProducerDone ==
    /\ p_at = "loop"
    /\ ~(p_i < num_ticks)
    /\ producer_done' = TRUE
    /\ p_at' = "finished"
    /\ UNCHANGED << othersPT, pFrame, p_i, pushed >>

\* What a step of consumerThread's own code leaves alone.
othersCT == << spscVars, mutexVars, pFrame, qtype, num_ticks, p_at, p_i,
              dtor_at, h_pc, producer_done, unitVars, pairVars, histVars,
              ticks_processed >>

\* consumerThread, line 42: throughput.start()
ConsumerStart ==
    /\ c_at = "start"
    /\ start
    /\ c_at' = "loop"
    /\ UNCHANGED << othersCT, cFrame, latencies_micros_, tick_count_ >>

\* consumerThread, line 45: tick_opt = queue.pop()  -- the call
ConsumerCallPop ==
    /\ c_at = "loop"
    /\ c_pc' = PopEntry(qtype)
    /\ c_at' = "in_pop"
    /\ UNCHANGED << othersCT, clockVars, old_head, nxt, c_val, c_ret, c_empty,
                    latencies_micros_, tick_count_, item_count_, running_ >>

\* consumerThread, line 47: if (tick_opt.has_value())
ConsumerAfterPop ==
    /\ c_at = "in_pop"
    /\ c_pc = "pop_ret"
    /\ PopFrameGone
    /\ c_at' = IF c_ret # NullOpt THEN "latency" ELSE "check_done"
    /\ UNCHANGED << othersCT,
                    clockVars, latencies_micros_, tick_count_, item_count_,
                    running_ >>

\* consumerThread, lines 51-53: latency_tracker.addLatency(now - timestamp)
ConsumerLatency ==
    /\ c_at = "latency"
    /\ \E l \in LatencyVals : addLatency(l)
    /\ c_at' = "analytics"
    /\ UNCHANGED << othersCT,
                    clockVars, cFrame, tick_count_, item_count_, running_ >>

\* A consumer that does not pass the tick to the analytics engine.
ConsumerAnalytics_NoCount ==
    /\ c_at = "analytics"
    /\ tick_count_' = tick_count_
    /\ c_at' = "throughput"
    /\ UNCHANGED << othersCT, clockVars, cFrame, latencies_micros_, item_count_,
                    running_ >>

\* consumerThread, line 56: analytics.processTick(tick)
ConsumerAnalytics ==
    /\ c_at = "analytics"
    /\ tick_count_' = tick_count_ + 1
    /\ c_at' = "throughput"
    /\ UNCHANGED << othersCT, clockVars, cFrame, latencies_micros_, item_count_,
                    running_ >>

\* consumerThread, line 59: throughput.addItem()
ConsumerThroughput ==
    /\ c_at = "throughput"
    /\ addItem
    /\ c_at' = "loop"
    /\ UNCHANGED << othersCT, cFrame, latencies_micros_, tick_count_ >>

\* A consumer that leaves the loop on the flag alone, without the second
\* look at the queue.
ConsumerCheckDone_NoRecheck ==
    /\ c_at = "check_done"
    /\ c_at' = IF producer_done THEN "stop" ELSE "yield"
    /\ UNCHANGED << othersCT, clockVars, cFrame, latencies_micros_, tick_count_,
                    item_count_, running_ >>

\* consumerThread, line 63: if (producer_done.load())
ConsumerCheckDone ==
    /\ c_at = "check_done"
    /\ c_at' = IF producer_done THEN "call_empty" ELSE "yield"
    /\ UNCHANGED << othersCT, clockVars, cFrame, latencies_micros_, tick_count_,
                    item_count_, running_ >>

\* consumerThread, line 65: queue.empty()  -- the call
ConsumerCallEmpty ==
    /\ c_at = "call_empty"
    /\ c_pc' = EmptyEntry(qtype)
    /\ c_at' = "in_empty"
    /\ UNCHANGED << othersCT, clockVars, old_head, nxt, c_val, c_ret, c_empty,
                    latencies_micros_, tick_count_, item_count_, running_ >>

\* A consumer that breaks whatever empty() returned.
ConsumerAfterEmpty_AlwaysBreak ==
    /\ c_at = "in_empty"
    /\ c_pc = "empty_ret"
    /\ PopFrameGone
    /\ c_at' = "stop"
    /\ UNCHANGED << othersCT, clockVars, latencies_micros_, tick_count_,
                    item_count_, running_ >>

\* consumerThread, lines 65-66: if (queue.empty()) break;
ConsumerAfterEmpty ==
    /\ c_at = "in_empty"
    /\ c_pc = "empty_ret"
    /\ PopFrameGone
    /\ c_at' = IF c_empty THEN "stop" ELSE "yield"
    /\ UNCHANGED << othersCT,
                    clockVars, latencies_micros_, tick_count_, item_count_,
                    running_ >>

\* consumerThread, line 70: std::this_thread::yield()
ConsumerYield ==
    /\ c_at = "yield"
    /\ c_at' = "loop"
    /\ UNCHANGED << othersCT, clockVars, cFrame, latencies_micros_, tick_count_,
                    item_count_, running_ >>

\* consumerThread, line 74: throughput.stop()
ConsumerStop ==
    /\ c_at = "stop"
    /\ stop
    /\ c_at' = "finished"
    /\ UNCHANGED << othersCT, cFrame, latencies_micros_, tick_count_ >>

\* The steps of runBenchmark's thread, of producerThread and of
\* consumerThread, their calls into the queue included.
HarnessStep ==
    \/ HarnessSpawnProducer \/ HarnessSpawnConsumer
    \/ HarnessJoinProducer \/ HarnessJoinConsumer
    \/ HarnessCollect \/ HarnessDestroy \/ HarnessReturn

ProducerStep == ProducerLoop \/ ProducerPushReturn \/ ProducerDone

ConsumerStep ==
    \/ ConsumerStart \/ ConsumerCallPop \/ ConsumerAfterPop
    \/ ConsumerLatency \/ ConsumerAnalytics \/ ConsumerThroughput
    \/ ConsumerCheckDone \/ ConsumerCallEmpty \/ ConsumerAfterEmpty
    \/ ConsumerYield \/ ConsumerStop

Next ==
    \/ HarnessStep \/ ProducerStep \/ ConsumerStep
    \/ PushStep \/ PopStep \/ EmptyStep \/ DtorStep

Spec == Init /\ [][Next]_vars

\* The steps each thread of a run executes, its steps inside the queue
\* included; the destructor's pop runs on runBenchmark's thread.
ProducerThread == ProducerStep \/ PushStep
ConsumerThread == ConsumerStep \/ (dtor_at = "none" /\ (PopStep \/ EmptyStep))
HarnessThread  == HarnessStep \/ DtorStep \/ (dtor_at # "none" /\ PopStep)

\* A run whose threads are each scheduled again and again: a thread that
\* can take a step and stays able to, takes one.  std::mutex promises no
\* more: a thread waiting in lock() is not owed the mutex.
FairSpec ==
    /\ Spec
    /\ WF_vars(ProducerThread)
    /\ WF_vars(ConsumerThread)
    /\ WF_vars(HarnessThread)

\* A run in which the producer thread and runBenchmark's thread are
\* scheduled again and again, and the consumer thread as often or as seldom
\* as the scheduler likes, not at all included.
ProducerFairSpec ==
    /\ Spec
    /\ WF_vars(ProducerThread)
    /\ WF_vars(HarnessThread)

\* ------------------------------------------- side by side (PairSpec)
\* One thread drives an SPSCQueue and a MutexQueue with the same calls, one
\* at a time: each call runs to its return on the SPSCQueue, then on the
\* MutexQueue.  d_abs is the sequence of values an unbounded FIFO would hold
\* and d_want what it would return.
PairInit ==
    /\ SPSCInit /\ MutexInit /\ FramesIdle /\ MetersInit /\ ClockInit /\ UnitOff
    /\ HistInit
    /\ qtype = "both"
    /\ num_ticks = 0 /\ p_i = 0 /\ producer_done = FALSE
    /\ p_at = "driver" /\ c_at = "driver" /\ h_pc = "driver"
    /\ dtor_at = "none"
    /\ d_pc = "ready" /\ d_op = << >> /\ d_n = 0
    /\ d_spsc = << >> /\ d_mutex = << >> /\ d_abs = << >> /\ d_want = << >>

\* The calls the driver can make.
Calls == {<< "push", v >> : v \in Values} \cup {<< "pop" >>, << "empty" >>}

\* What the call returns on a FIFO holding q, and what the FIFO holds then.
FifoReturn(op, q) ==
    CASE op[1] = "push"  -> << >>
      [] op[1] = "pop"   -> IF q = << >> THEN NullOpt ELSE Some(Head(q))
      [] op[1] = "empty" -> << q = << >> >>

FifoAfter(op, q) ==
    CASE op[1] = "push"  -> Append(q, op[2])
      [] op[1] = "pop"   -> IF q = << >> THEN q ELSE Tail(q)
      [] op[1] = "empty" -> q

\* The call op is started on queue q.
Start(op, q) ==
    /\ IF op[1] = "push"
          THEN /\ p_pc' = PushEntry(q) /\ p_val' = op[2]
               /\ UNCHANGED << new_node, old_tail, cFrame >>
          ELSE /\ c_pc' = IF op[1] = "pop" THEN PopEntry(q) ELSE EmptyEntry(q)
               /\ UNCHANGED << old_head, nxt, c_val, c_ret, c_empty, pFrame >>

\* The call op has returned.
Returned(op) ==
    CASE op[1] = "push"  -> p_pc = "push_ret"
      [] op[1] = "pop"   -> c_pc = "pop_ret"
      [] op[1] = "empty" -> c_pc = "empty_ret"

\* What the call op returned.
Result(op) ==
    CASE op[1] = "push"  -> << >>
      [] op[1] = "pop"   -> c_ret
      [] op[1] = "empty" -> << c_empty >>

\* The frame of the returned call is left.
Leave(op) ==
    IF op[1] = "push"
       THEN PushFrameGone /\ UNCHANGED cFrame
       ELSE PopFrameGone /\ UNCHANGED pFrame

PairCall ==
    /\ d_pc = "ready"
    /\ d_n < MaxCalls
    /\ \E op \in Calls :
          /\ d_op' = op
          /\ d_want' = FifoReturn(op, d_abs)
          /\ d_abs' = FifoAfter(op, d_abs)
          /\ Start(op, "spsc")
    /\ d_n' = d_n + 1
    /\ d_pc' = "in_spsc"
    /\ UNCHANGED << spscVars, mutexVars, runVars, meterVars,
                    clockVars, unitVars,
                    histVars,
                    d_spsc, d_mutex >>

PairSpscReturn ==
    /\ d_pc = "in_spsc"
    /\ Returned(d_op)
    /\ d_spsc' = Result(d_op)
    /\ d_pc' = "switch"
    /\ Leave(d_op)
    /\ UNCHANGED << spscVars, mutexVars, runVars, meterVars,
                    clockVars, unitVars,
                    histVars,
                    d_op, d_n, d_mutex, d_abs, d_want >>

PairCallMutex ==
    /\ d_pc = "switch"
    /\ Start(d_op, "mutex")
    /\ d_pc' = "in_mutex"
    /\ UNCHANGED << spscVars, mutexVars, runVars, meterVars,
                    clockVars, unitVars,
                    histVars,
                    d_op, d_n, d_spsc, d_mutex, d_abs, d_want >>

PairMutexReturn ==
    /\ d_pc = "in_mutex"
    /\ Returned(d_op)
    /\ d_mutex' = Result(d_op)
    /\ d_pc' = "ready"
    /\ Leave(d_op)
    /\ UNCHANGED << spscVars, mutexVars, runVars, meterVars,
                    clockVars, unitVars,
                    histVars,
                    d_op, d_n, d_spsc, d_abs, d_want >>

PairNext ==
    \/ PairCall \/ PairSpscReturn \/ PairCallMutex \/ PairMutexReturn
    \/ PushStep \/ PopStep \/ EmptyStep

PairSpec == PairInit /\ [][PairNext]_vars

\* ------------------------------------ a LatencyTracker alone (TrackerSpec)
\* One thread constructs a LatencyTracker and calls its members in any
\* order.  No queue, no run and no driver exist.
AloneInit ==
    /\ SPSCInit /\ MutexInit /\ FramesIdle /\ MetersInit /\ ClockInit /\ UnitOff
    /\ HistInit /\ PairOff
    /\ qtype = "none"
    /\ num_ticks = 0 /\ p_i = 0 /\ producer_done = FALSE
    /\ p_at = "none" /\ c_at = "none" /\ h_pc = "none"
    /\ dtor_at = "none"

TrackerInit == AloneInit

\* What a call of a LatencyTracker member leaves alone.
othersT == << spscVars, mutexVars, pFrame, cFrame, runVars, tick_count_,
             item_count_, running_, ticks_processed, clockVars, all_results,
             file, x_pc, cout, pairVars, histVars >>

\* tracker.addLatency(l), any sample
TrackerAddLatency ==
    /\ Len(latencies_micros_) < MaxSamples
    /\ \E l \in SampleVals :
          /\ addLatency(l)
          /\ u_call' = << "addLatency", l >>
    /\ u_ret' = << >>
    /\ UNCHANGED othersT

\* tracker.addLatency(l), the next sample of the scenario
TrackerAddScenario ==
    /\ Len(latencies_micros_) < Len(Scenario)
    /\ latencies_micros_ = SubSeq(Scenario, 1, Len(latencies_micros_))
    /\ LET l == Scenario[Len(latencies_micros_) + 1]
       IN  addLatency(l) /\ u_call' = << "addLatency", l >>
    /\ u_ret' = << >>
    /\ UNCHANGED othersT

\* tracker.reset()
TrackerReset ==
    /\ reset
    /\ u_call' = << "reset" >>
    /\ u_ret' = << >>
    /\ UNCHANGED othersT

\* A getPercentile that sorts the stored samples themselves.
TrackerGetPercentile_SortInPlace ==
    /\ \E p \in Percentiles :
          /\ u_call' = << "getPercentile", p >>
          /\ \E v \in getPercentile(p) : u_ret' = << v >>
    /\ latencies_micros_' = sort(latencies_micros_)
    /\ UNCHANGED othersT

\* tracker.getPercentile(p)
TrackerGetPercentile ==
    /\ \E p \in Percentiles :
          /\ u_call' = << "getPercentile", p >>
          /\ \E v \in getPercentile(p) : u_ret' = << v >>
    /\ UNCHANGED << latencies_micros_, othersT >>

\* tracker.getP50(), getP99(), getP999()
TrackerGetP50 ==
    /\ u_call' = << "getP50" >>
    /\ \E v \in getP50 : u_ret' = << v >>
    /\ UNCHANGED << latencies_micros_, othersT >>

TrackerGetP99 ==
    /\ u_call' = << "getP99" >>
    /\ \E v \in getP99 : u_ret' = << v >>
    /\ UNCHANGED << latencies_micros_, othersT >>

TrackerGetP999 ==
    /\ u_call' = << "getP999" >>
    /\ \E v \in getP999 : u_ret' = << v >>
    /\ UNCHANGED << latencies_micros_, othersT >>

\* tracker.getMean(), getMin(), getMax(), getCount()
TrackerGetMean ==
    /\ u_call' = << "getMean" >>
    /\ u_ret' = getMean
    /\ UNCHANGED << latencies_micros_, othersT >>

TrackerGetMin ==
    /\ u_call' = << "getMin" >>
    /\ u_ret' = << getMin >>
    /\ UNCHANGED << latencies_micros_, othersT >>

TrackerGetMax ==
    /\ u_call' = << "getMax" >>
    /\ u_ret' = << getMax >>
    /\ UNCHANGED << latencies_micros_, othersT >>

TrackerGetCount ==
    /\ u_call' = << "getCount" >>
    /\ u_ret' = << getCount >>
    /\ UNCHANGED << latencies_micros_, othersT >>

TrackerNext ==
    \/ TrackerAddLatency \/ TrackerAddScenario \/ TrackerReset
    \/ TrackerGetPercentile \/ TrackerGetP50 \/ TrackerGetP99
    \/ TrackerGetP999 \/ TrackerGetMean \/ TrackerGetMin \/ TrackerGetMax
    \/ TrackerGetCount

TrackerSpec == TrackerInit /\ [][TrackerNext]_vars

\* ------------------------------------ a ThroughputMeter alone (MeterSpec)
\* One thread constructs a ThroughputMeter and calls its members in any
\* order.
MeterInit == AloneInit

\* What a call of a ThroughputMeter member leaves alone.
othersM == << spscVars, mutexVars, pFrame, cFrame, runVars,
             latencies_micros_, tick_count_, ticks_processed, all_results,
             file, x_pc, cout, pairVars, histVars >>

\* meter.start()
MeterStart ==
    /\ start
    /\ u_call' = << "start" >>
    /\ u_ret' = << >>
    /\ UNCHANGED othersM

\* meter.stop()
MeterStop ==
    /\ stop
    /\ u_call' = << "stop" >>
    /\ u_ret' = << >>
    /\ UNCHANGED othersM

\* meter.addItem()
MeterAddItem ==
    /\ item_count_ < MaxItems
    /\ addItem
    /\ u_call' = << "addItem" >>
    /\ u_ret' = << >>
    /\ UNCHANGED othersM

\* meter.addItems(count)
MeterAddItems ==
    /\ \E count \in AddCounts :
          /\ (item_count_ + count) % 2^SizeBits <= MaxItems
          /\ addItems(count)
          /\ u_call' = << "addItems", count >>
    /\ u_ret' = << >>
    /\ UNCHANGED othersM

\* meter.getThroughput(); the clock is read only on a running meter with
\* items (lines 149, 151-152).
MeterGetThroughput ==
    /\ \E t \in now..MaxClock :
          /\ (item_count_ = 0 \/ ~running_) => t = now
          /\ now' = t
          /\ u_ret' = getThroughput(t)
    /\ u_call' = << "getThroughput" >>
    /\ UNCHANGED << item_count_, running_, start_time_, end_time_, started,
                    othersM >>

\* meter.getElapsedSeconds(); the clock is read only on a running meter.
MeterGetElapsedSeconds ==
    /\ \E t \in now..MaxClock :
          /\ ~running_ => t = now
          /\ now' = t
          /\ u_ret' = << getElapsedSeconds(t) >>
    /\ u_call' = << "getElapsedSeconds" >>
    /\ UNCHANGED << item_count_, running_, start_time_, end_time_, started,
                    othersM >>

\* meter.getItemCount()
MeterGetItemCount ==
    /\ u_call' = << "getItemCount" >>
    /\ u_ret' = << getItemCount >>
    /\ UNCHANGED << item_count_, running_, clockVars, othersM >>

MeterNext ==
    \/ MeterStart \/ MeterStop \/ MeterAddItem \/ MeterAddItems
    \/ MeterGetThroughput \/ MeterGetElapsedSeconds \/ MeterGetItemCount

MeterSpec == MeterInit /\ [][MeterNext]_vars

\* ------------------------- runComprehensiveBenchmarks (SweepSpec)
\* The sweep over test_sizes, two runs per size, then the export.  A run of
\* runBenchmark is one step here (Spec has its steps); its result carries
\* the name, ticks_processed and one statistic, latency_p99, the other
\* statistics being produced and written the same way.
test_sizes == [i \in 1..MaxRuns |-> i]

\* The index in test_sizes of the size the loop is at.
SizeIndex == Len(all_results) \div 2 + 1

SweepInit ==
    /\ SPSCInit /\ MutexInit /\ FramesIdle /\ MetersInit /\ ClockInit
    /\ HistInit /\ PairOff
    /\ qtype = "none"
    /\ num_ticks = 0 /\ p_i = 0 /\ producer_done = FALSE
    /\ p_at = "none" /\ c_at = "none" /\ h_pc = "none"
    /\ dtor_at = "none"
    /\ u_call = << "none" >> /\ u_ret = << >>
    /\ all_results = << >>
    /\ file = [is_open |-> FALSE, fail |-> FALSE, text |-> << >>]
    /\ x_pc = "loop" /\ cout = << >>

\* What a step of the sweep or of the export leaves alone.
othersX == << spscVars, mutexVars, pFrame, cFrame, runVars, meterVars,
             clockVars, pairVars, histVars >>

\* runComprehensiveBenchmarks, lines 141-143: the SPSCQueue run of a size
SweepRunLockFree ==
    /\ x_pc = "loop"
    /\ SizeIndex <= Len(test_sizes)
    /\ \E l \in LatencyVals :
          all_results' = Append(all_results,
              [name |-> << "Lock-Free SPSC", test_sizes[SizeIndex] >>,
               ticks_processed |-> test_sizes[SizeIndex],
               latency_p99 |-> l])
    /\ x_pc' = "mutex_run"
    /\ UNCHANGED << othersX, u_call, u_ret, file, cout >>

\* runComprehensiveBenchmarks, lines 146-154: the MutexQueue run of the size
SweepRunMutex ==
    /\ x_pc = "mutex_run"
    /\ \E l \in LatencyVals :
          all_results' = Append(all_results,
              [name |-> << "Mutex Queue", test_sizes[SizeIndex] >>,
               ticks_processed |-> test_sizes[SizeIndex],
               latency_p99 |-> l])
    /\ x_pc' = "loop"
    /\ UNCHANGED << othersX, u_call, u_ret, file, cout >>

\* runComprehensiveBenchmarks, lines 158-168: the loop is over, the summary
\* is printed and exportToCSV(all_results, "benchmark_results.csv") called
SweepCallExport ==
    /\ x_pc = "loop"
    /\ ~(SizeIndex <= Len(test_sizes))
    /\ u_call' = << "exportToCSV" >>
    /\ u_ret' = << >>
    /\ x_pc' = "open"
    /\ UNCHANGED << othersX, all_results, file, cout >>

\* exportToCSV, lines 213-214: std::ofstream file(filename), which the
\* file system lets succeed or not; if (!file.is_open()) return;
ExportOpen ==
    /\ x_pc = "open"
    /\ \E ok \in BOOLEAN :
          /\ file' = [is_open |-> ok, fail |-> ~ok, text |-> << >>]
          /\ x_pc' = IF ok THEN "header" ELSE "export_ret"
    /\ UNCHANGED << othersX, u_call, u_ret, all_results, cout >>

\* exportToCSV, line 217: the header
ExportHeader ==
    /\ x_pc = "header"
    /\ file' = [file EXCEPT !.text =
                    Append(@, << "Name", "Ticks", "Latency_P99" >>)]
    /\ x_pc' = "rows"
    /\ UNCHANGED << othersX, u_call, u_ret, all_results, cout >>

\* exportToCSV, lines 220-231: the row of the next result
ExportRow ==
    /\ x_pc = "rows"
    /\ Len(file.text) - 1 < Len(all_results)
    /\ LET r == all_results[Len(file.text)]
       IN  file' = [file EXCEPT !.text =
                Append(@, << r.name, r.ticks_processed, r.latency_p99 >>)]
    /\ UNCHANGED << othersX, u_call, u_ret, all_results, x_pc, cout >>

\* exportToCSV, lines 233-234: file.close() and the return
ExportClose ==
    /\ x_pc = "rows"
    /\ ~(Len(file.text) - 1 < Len(all_results))
    /\ file' = [file EXCEPT !.is_open = FALSE]
    /\ x_pc' = "export_ret"
    /\ UNCHANGED << othersX, u_call, u_ret, all_results, cout >>

\* runComprehensiveBenchmarks, lines 168-169: exportToCSV has returned
\* (void: nothing comes back), "Results exported to: ..." is printed
SweepExported ==
    /\ x_pc = "export_ret"
    /\ u_ret' = << >>
    /\ cout' = Append(cout, "Results exported to: benchmark_results.csv")
    /\ x_pc' = "done"
    /\ UNCHANGED << othersX, u_call, all_results, file >>

SweepNext ==
    \/ SweepRunLockFree \/ SweepRunMutex \/ SweepCallExport
    \/ ExportOpen \/ ExportHeader \/ ExportRow \/ ExportClose
    \/ SweepExported

SweepSpec == SweepInit /\ [][SweepNext]_vars

\* ------------- runComprehensiveBenchmarks with its runs in full (RunsSpec)
\* The sweep of SweepSpec with every call of runBenchmark carried out step
\* by step as in Spec: the call constructs the run's objects, the run's
\* threads take their steps, and the return appends the result.  A result
\* carries here the name and ticks_processed.

\* runBenchmark, lines 82-91, called for queue type q and n ticks: the
\* queue, producer_done{false}, the analytics engine, the tracker and the
\* meter are constructed; no thread is launched yet.  The steady clock is
\* not a local: it keeps its reading.
RunConstructed(q, n) ==
    /\ data' = << 0 >> /\ next' = << NoNode >> /\ deleted' = << 0 >>
    /\ head_' = 1 /\ tail_' = 1
    /\ queue_' = << >> /\ mutex_' = "free"
    /\ p_pc' = "idle" /\ p_val' = 0 /\ new_node' = NoNode
    /\ old_tail' = NoNode
    /\ c_pc' = "idle" /\ old_head' = NoNode /\ nxt' = NoNode /\ c_val' = 0
    /\ c_ret' = NullOpt /\ c_empty' = FALSE
    /\ latencies_micros_' = << >> /\ tick_count_' = 0
    /\ item_count_' = 0 /\ running_' = FALSE /\ ticks_processed' = 0
    /\ start_time_' = 0 /\ end_time_' = 0 /\ started' = FALSE
    /\ qtype' = q /\ num_ticks' = n
    /\ p_i' = 0 /\ producer_done' = FALSE
    /\ p_at' = "unstarted" /\ c_at' = "unstarted"
    /\ h_pc' = "spawn_producer" /\ dtor_at' = "none"
    /\ pushed' = << >> /\ linked' = 0 /\ popped' = << >>
    /\ UNCHANGED << fault, now, pairVars >>

\* runBenchmark has returned: its locals, the two std::thread objects
\* included, are gone; the result is appended to all_results.
RunReturned(name) ==
    /\ h_pc = "returned"
    /\ all_results' = Append(all_results,
                         [name |-> << name, num_ticks >>,
                          ticks_processed |-> ticks_processed])
    /\ h_pc' = "none" /\ p_at' = "none" /\ c_at' = "none"
    /\ UNCHANGED << spscVars, mutexVars, pFrame, cFrame, qtype, num_ticks,
                    p_i, dtor_at, producer_done, meterVars, clockVars,
                    pairVars, histVars >>

\* runComprehensiveBenchmarks, lines 141-143: runBenchmark<SPSCQueue> is
\* called for the size the loop is at
SweepCallLockFree ==
    /\ x_pc = "loop"
    /\ SizeIndex <= Len(test_sizes)
    /\ RunConstructed("spsc", test_sizes[SizeIndex])
    /\ x_pc' = "in_lockfree"
    /\ UNCHANGED << u_call, u_ret, all_results, file, cout >>

\* runComprehensiveBenchmarks, lines 142-144: the call has returned;
\* all_results.push_back(lockfree_results)
SweepLockFreeReturned ==
    /\ x_pc = "in_lockfree"
    /\ RunReturned("Lock-Free SPSC")
    /\ x_pc' = "mutex_run"
    /\ UNCHANGED << u_call, u_ret, file, cout >>

\* runComprehensiveBenchmarks, lines 146-148: runBenchmark<MutexQueue> is
\* called for the same size
SweepCallMutex ==
    /\ x_pc = "mutex_run"
    /\ RunConstructed("mutex", test_sizes[SizeIndex])
    /\ x_pc' = "in_mutex"
    /\ UNCHANGED << u_call, u_ret, all_results, file, cout >>

\* runComprehensiveBenchmarks, lines 147-155: the call has returned;
\* all_results.push_back(mutex_results), the comparison is printed
SweepMutexReturned ==
    /\ x_pc = "in_mutex"
    /\ RunReturned("Mutex Queue")
    /\ x_pc' = "loop"
    /\ UNCHANGED << u_call, u_ret, file, cout >>

\* runComprehensiveBenchmarks, line 138: test_sizes is exhausted
SweepLoopEnd ==
    /\ x_pc = "loop"
    /\ ~(SizeIndex <= Len(test_sizes))
    /\ x_pc' = "summary"
    /\ UNCHANGED << spscVars, mutexVars, pFrame, cFrame, runVars, meterVars,
                    clockVars, pairVars, histVars,
                    u_call, u_ret, all_results, file, cout >>

RunsInit == SweepInit

RunsNext ==
    \/ SweepCallLockFree \/ SweepLockFreeReturned
    \/ SweepCallMutex \/ SweepMutexReturned \/ SweepLoopEnd
    \/ HarnessStep \/ ProducerStep \/ ConsumerStep
    \/ PushStep \/ PopStep \/ EmptyStep \/ DtorStep

RunsSpec == RunsInit /\ [][RunsNext]_vars

\* The objects of a run that the next step of each thread accesses, by the
\* thread's position: runBenchmark's locals queue, producer_done,
\* analytics, latency_tracker and throughput.
RunObjects ==
    {"queue", "producer_done", "analytics", "latency_tracker", "throughput"}

\* producerThread, lines 25-30: queue.push(tick); done.store(true)
ProducerAccesses ==
    CASE p_at = "loop"    -> IF p_i < num_ticks THEN {"queue"}
                                                ELSE {"producer_done"}
      [] p_at = "in_push" -> {"queue"}
      [] OTHER            -> {}

\* consumerThread, lines 42-74
ConsumerAccesses ==
    CASE c_at \in {"start", "throughput", "stop"}                -> {"throughput"}
      [] c_at \in {"loop", "in_pop", "call_empty", "in_empty"}   -> {"queue"}
      [] c_at = "latency"                                        -> {"latency_tracker"}
      [] c_at = "analytics"                                      -> {"analytics"}
      [] c_at = "check_done"                                     -> {"producer_done"}
      [] OTHER                                                   -> {}

\* runBenchmark, lines 94-123: the thread launches pass references and the
\* joins touch the std::thread objects only; lines 105-115 query the
\* tracker and the meter; the return destroys all five objects.
HarnessAccesses ==
    CASE h_pc = "collect"               -> {"latency_tracker", "throughput"}
      [] h_pc \in {"destroy", "in_dtor"} -> RunObjects
      [] OTHER                           -> {}

\* The thread was launched and has not finished its function.
ThreadAlive(at) == at \notin {"none", "unstarted", "finished"}

\* ------------------------------------------------------------------ claims
\* s is an initial segment of t.
IsPrefix(s, t) ==
    /\ Len(s) <= Len(t)
    /\ \A i \in 1..Len(s) : s[i] = t[i]

\* C1: FIFO, both queue variants: in every state of every interleaving of
\* the producer's pushes and the consumer's pops, the values returned so far
\* by non-empty pops are an initial segment of the values pushed, in push
\* order, and a pop that has just returned a value returned the last of them.
C1_Fifo ==
    /\ IsPrefix(popped, pushed)
    /\ (c_pc = "pop_ret" /\ c_ret # NullOpt) =>
          (popped # << >> /\ c_ret = Some(popped[Len(popped)]))

\* C1's scenario: 10, 20, 30 were pushed, three pops returned 10, 20, 30 and
\* the fourth pop has returned no value.
C1_Witness ==
    /\ pushed = << 10, 20, 30 >>
    /\ popped = << 10, 20, 30 >>
    /\ c_at = "client_pop" /\ c_pc = "pop_ret" /\ c_ret = NullOpt

\* consumerThread has left its while loop (benchmark.cpp:66, break).
ConsumerLeftLoop == c_at \in {"stop", "finished"}

\* No value is queued: head_'s node has no successor / queue_ is empty.
QueueHoldsNothing ==
    IF qtype = "spsc" THEN next[head_] = NoNode ELSE queue_ = << >>

\* C2: no loss, no duplication in a benchmark run: once the consumer has left
\* its loop, the producer has pushed its num_ticks distinct records, the
\* consumer has received exactly those, each once and in order, one latency
\* sample per record, and nothing is left in the queue.
C2_NoLossNoDup ==
    ConsumerLeftLoop =>
        /\ pushed = [i \in 1..num_ticks |-> i]
        /\ popped = pushed
        /\ Len(latencies_micros_) = num_ticks
        /\ QueueHoldsNothing

\* C2: a run of at least two records whose consumer has finished.
C2_Witness ==
    /\ c_at = "finished"
    /\ num_ticks >= 2
    /\ Len(popped) = num_ticks

\* C3: node memory safety of SPSCQueue under one producer and one consumer:
\* no node is deleted twice, and no field of a deleted node is ever loaded or
\* stored.
C3_MemorySafe ==
    /\ ~fault
    /\ \A n \in 1..Len(deleted) : deleted[n] <= 1

\* C3: the sentinel has been deleted by a pop, and both threads are in the
\* middle of a call that accesses node fields.
C3_Witness ==
    /\ qtype = "spsc"
    /\ deleted[1] = 1
    /\ p_pc = "push_store_tail"
    /\ c_pc = "pop_read_data"

\* The run is over: the producer has set the flag, the consumer has left its
\* loop and stopped the meter, and both joins have returned.
RunDone ==
    /\ producer_done
    /\ c_at = "finished" /\ ~running_
    /\ h_pc \in {"collect", "destroy", "in_dtor", "returned"}

Drained == p_pc = "idle" /\ Len(popped) = Len(pushed)

\* C5: empty after drain, both queue variants: when N pushes and N
\* successful pops have completed (any N >= 0, any interleaving), the step on
\* which empty() decides yields true and the step on which pop() decides
\* takes the return of no value.
C5_EmptyAfterDrain ==
    [][ Drained =>
          /\ (c_pc \in {"empty_load_next", "m_empty_read"} /\ c_pc' # c_pc)
                => c_empty'
          /\ (c_pc = "pop_load_next" /\ c_pc' # c_pc)
                => (c_pc' = "pop_ret" /\ c_ret' = NullOpt)
          /\ (c_pc = "m_pop_check" /\ c_pc' # c_pc)
                => c_pc' = "m_pop_ret_empty" ]_vars

\* C5: two or more values were pushed and popped, and an empty() called
\* afterwards has returned true.
C5_Witness ==
    /\ Drained
    /\ Len(popped) >= 2
    /\ c_at = "client_empty" /\ c_pc = "empty_ret" /\ c_empty

\* The positions of pop from which the return of no value can still be
\* taken.
PopEmptyPath ==
    {"pop_load_head", "pop_load_next", "m_pop_lock", "m_pop_check",
     "m_pop_ret_empty"}

\* C6: pop on an empty queue has no side effect: pop returns nullopt only
\* from its empty path, and no step of that path changes head_, tail_, a
\* node's data or next link, the allocated or deleted nodes, or queue_; the
\* MutexQueue's return of nullopt leaves mutex_ free.
C6_PopEmptyNoEffect ==
    [][ /\ (c_pc' = "pop_ret" /\ c_pc # "pop_ret" /\ c_ret' = NullOpt)
              => c_pc \in {"pop_load_next", "m_pop_ret_empty"}
        /\ (c_pc' \in PopEmptyPath /\ c_pc' # c_pc)
              => c_pc \in PopEmptyPath \cup {"idle"}
        /\ (c_pc \in PopEmptyPath /\ c_pc' \in PopEmptyPath \cup {"pop_ret"}
               /\ c_pc' # c_pc)
              => /\ UNCHANGED << head_, tail_, data, next, deleted, queue_ >>
                 /\ c_pc' = "pop_ret" => (c_ret' = NullOpt /\ mutex_' = "free")
      ]_vars

\* C6: a pop has returned no value on a queue whose head has already moved.
C6_Witness ==
    /\ Len(popped) >= 1
    /\ c_at = "client_pop" /\ c_pc = "pop_ret" /\ c_ret = NullOpt
    /\ Drained

\* The producer thread makes no further push (and is in none).
ProducerStopped == p_at \in {"stopped", "ended"}

\* Every linked node's value has been returned by a pop.
NothingUnpopped == linked = Len(popped)

\* C7: SPSCQueue::empty() returns true exactly when, at its read of
\* head->next, as many nodes were linked as pops succeeded; and once the
\* producer has stopped, that stays so: nothing is linked any more and every
\* pop deciding from then on returns no value.
C7_EmptySnapshot ==
    [][ /\ (c_pc = "empty_load_next" /\ c_pc' = "empty_ret")
              => (c_empty' <=> NothingUnpopped)
        /\ (qtype = "spsc" /\ ProducerStopped /\ NothingUnpopped)
              => /\ ProducerStopped' /\ NothingUnpopped'
                 /\ (c_pc = "pop_load_next" /\ c_pc' # c_pc)
                       => (c_pc' = "pop_ret" /\ c_ret' = NullOpt)
      ]_vars

\* C7: with the producer stopped, an empty() on a queue that values went
\* through has returned true.
C7_Witness ==
    /\ qtype = "spsc"
    /\ p_at = "stopped"
    /\ Len(popped) >= 1
    /\ c_at = "client_empty" /\ c_pc = "empty_ret" /\ c_empty

\* C8: destruction frees everything: when ~SPSCQueue has returned, every
\* node ever allocated (the sentinel and one node per push) has been deleted
\* exactly once.
C8_DtorFreesAll ==
    dtor_at = "destroyed" =>
        /\ Len(deleted) = 1 + Len(pushed)
        /\ \A n \in 1..Len(deleted) : deleted[n] = 1

\* C8: a queue that took at least two pushes has been destroyed.
C8_Witness ==
    /\ dtor_at = "destroyed"
    /\ Len(pushed) >= 2
    /\ \A n \in 1..Len(deleted) : deleted[n] = 1

\* The bodies of MutexQueue's push, and of its pop and empty: the positions
\* between the lock_guard's construction and its destruction.
InPushBody == p_pc \in {"m_push_push", "m_push_unlock"}
InPopEmptyBody ==
    c_pc \in {"m_pop_check", "m_pop_ret_empty", "m_pop_front", "m_pop_pop",
              "m_pop_ret_value", "m_empty_read", "m_empty_unlock"}

\* C9: MutexQueue locking: a thread holds mutex_ exactly while it is inside
\* the body of push, pop or empty (so on every return, pop's early one
\* included, it has released it), the two threads are never inside a body
\* together, and whenever mutex_ is held its holder can take its next step,
\* so no thread waits for a lock that is never released.
C9_MutexDiscipline ==
    /\ (mutex_ = "P") <=> InPushBody
    /\ (mutex_ = "C") <=> InPopEmptyBody
    /\ ~(InPushBody /\ InPopEmptyBody)
    /\ mutex_ = "P" => ENABLED (MPushPush \/ MPushUnlock)
    /\ mutex_ = "C" => ENABLED (PopStep \/ EmptyStep)

\* C9: the producer waits in push's lock_guard while the consumer is about
\* to take pop's early return.
C9_Witness ==
    /\ p_pc = "m_push_lock"
    /\ mutex_ = "C"
    /\ c_pc = "m_pop_ret_empty"

\* C10: observable equivalence: after every call of a common sequence of
\* push(v), pop() and empty() calls, the SPSCQueue and the MutexQueue have
\* returned the same, and what an unbounded FIFO returns.
C10_SameReturns ==
    (d_pc = "ready" /\ d_n > 0) =>
        /\ d_spsc = d_mutex
        /\ d_spsc = d_want

\* C10: the fourth call, a pop, has returned the second value pushed on both
\* queues.
C10_Witness ==
    /\ d_pc = "ready"
    /\ d_n = 4
    /\ d_op = << "pop" >>
    /\ d_spsc = Some(20) /\ d_mutex = Some(20)
    /\ d_abs = << >>

\* The value at (zero-based) index i of the ascending sort of s is v: at
\* most i samples are below v and more than i samples are at most v.
AtSortedIndex(s, i, v) ==
    /\ Cardinality({j \in DOMAIN s : s[j] < v}) <= i
    /\ i < Cardinality({j \in DOMAIN s : s[j] <= v})

\* i = min(floor(p * n), n - 1), p in thousandths.
IsClampedIndex(i, p, n) ==
    \/ i < n - 1 /\ 1000 * i <= p * n /\ p * n < 1000 * (i + 1)
    \/ i = n - 1 /\ 1000 * i <= p * n

\* C11: getPercentile(p), p in [0,1], returns 0 on an empty tracker and on n
\* samples the element at index min(floor(p * n), n - 1) of their ascending
\* sort; on the samples 1..10 getPercentile(0.5) is 6 and getPercentile(0.99)
\* is 10.
C11_Percentile ==
    (Head(u_call) = "getPercentile" /\ u_call[2] \in 0..1000) =>
        LET p == u_call[2]
            s == latencies_micros_
            n == Len(s)
        IN  /\ n = 0 => u_ret = << 0 >>
            /\ n > 0 => \E i \in 0..(n - 1) :
                           /\ IsClampedIndex(i, p, n)
                           /\ AtSortedIndex(s, i, u_ret[1])
            /\ s = Scenario => /\ p = 500 => u_ret = << 6 >>
                               /\ p = 990 => u_ret = << 10 >>

\* C11: on the samples 1..10, getPercentile(0.5) has returned 6.
C11_Witness ==
    /\ latencies_micros_ = Scenario
    /\ u_call = << "getPercentile", 500 >>
    /\ u_ret = << 6 >>

\* The place of a query in the chain getMin, getP50, getP99, getP999, getMax
\* (0: not in the chain).
ChainPlace(c) ==
    CASE Head(c) = "getMin"  -> 1
      [] Head(c) = "getP50"  -> 2
      [] Head(c) = "getP99"  -> 3
      [] Head(c) = "getP999" -> 4
      [] Head(c) = "getMax"  -> 5
      [] OTHER               -> 0

\* C12: percentile monotonicity: of two queries made one after the other on
\* the same samples, getPercentile(p1) then getPercentile(p2) with
\* p1 <= p2 in [0,1], the second returns no less than the first; and on a
\* non-empty tracker a query later in the chain getMin, getP50, getP99,
\* getP999, getMax returns no less than an earlier one.
C12_Monotone ==
    [][ /\ ( /\ Head(u_call) = "getPercentile"
             /\ Head(u_call') = "getPercentile"
             /\ u_call[2] <= u_call'[2] /\ u_call'[2] <= 1000 )
            => u_ret[1] <= u_ret'[1]
        /\ ( /\ latencies_micros_ # << >>
             /\ ChainPlace(u_call) > 0
             /\ ChainPlace(u_call') >= ChainPlace(u_call) )
            => u_ret[1] <= u_ret'[1]
      ]_vars

\* C12: on samples added out of order, getP99 has returned the largest.
C12_Witness ==
    /\ latencies_micros_ = << 3, 1, 2 >>
    /\ u_call = << "getP99" >>
    /\ u_ret = << 3 >>

\* The queries that go through getPercentile.
PercentileQueries == {"getPercentile", "getP50", "getP99", "getP999"}

\* C13 as stated: on a non-empty tracker getPercentile(0.0) returns what
\* getMin() returns and getPercentile(p), for every p >= 1.0, what getMax()
\* returns; on an empty tracker (new, or after reset) the percentile queries,
\* getMean, getMin and getMax return 0.
C13_Boundaries ==
    /\ (latencies_micros_ # << >> /\ u_call = << "getPercentile", 0 >>)
          => u_ret = << getMin >>
    /\ (latencies_micros_ # << >> /\ Head(u_call) = "getPercentile"
           /\ u_call[2] >= 1000)
          => u_ret = << getMax >>
    /\ (latencies_micros_ = << >>
           /\ Head(u_call) \in PercentileQueries \cup {"getMin", "getMax"})
          => u_ret = << 0 >>
    /\ (latencies_micros_ = << >> /\ Head(u_call) = "getMean")
          => u_ret[1] = 0

\* C13, amended: as stated, getPercentile(p) returning what getMax() returns
\* for every p >= 1.0 whose product with the sample count size_t can hold.
C13_BoundariesInRange ==
    /\ (latencies_micros_ # << >> /\ u_call = << "getPercentile", 0 >>)
          => u_ret = << getMin >>
    /\ (latencies_micros_ # << >> /\ Head(u_call) = "getPercentile"
           /\ u_call[2] >= 1000
           /\ (u_call[2] * Len(latencies_micros_)) \div 1000 <= SizeMax)
          => u_ret = << getMax >>
    /\ (latencies_micros_ = << >>
           /\ Head(u_call) \in PercentileQueries \cup {"getMin", "getMax"})
          => u_ret = << 0 >>
    /\ (latencies_micros_ = << >> /\ Head(u_call) = "getMean")
          => u_ret[1] = 0

\* C13: on samples added out of order, getPercentile(1.5) has returned the
\* largest.
C13_Witness ==
    /\ latencies_micros_ = << 1, 3, 2 >>
    /\ u_call = << "getPercentile", 1500 >>
    /\ u_ret = << 3 >>

\* A quotient that is zero.
IsZero(q) == q[1] = 0

\* C14 as stated: throughput zero-guard: after any calls of start, stop,
\* addItem and addItems, getThroughput() returns 0 whenever the item count
\* is 0; and on a meter on which start() was never called getThroughput()
\* returns 0 and getElapsedSeconds() returns 0, whatever else was called.
C14_ZeroGuard ==
    /\ (u_call = << "getThroughput" >> /\ item_count_ = 0) => IsZero(u_ret)
    /\ (u_call = << "getThroughput" >> /\ ~started) => IsZero(u_ret)
    /\ (u_call = << "getElapsedSeconds" >> /\ ~started) => u_ret = << 0 >>

\* What the caller of exportToCSV has in hand after an export that
\* succeeded: nothing returned, and its own message printed.
AsAfterSuccess ==
    /\ u_ret = << >>
    /\ cout = << "Results exported to: benchmark_results.csv" >>

\* C15 as stated: export failure is reported: when the target file cannot
\* be opened, what the caller of exportToCSV has in hand after the call
\* differs from what it has after a successful export, and from the call on
\* the vector of results is unchanged.
C15_ExportFailureReported ==
    /\ (x_pc = "done" /\ file.fail) => ~AsAfterSuccess
    /\ (x_pc \in {"open", "header", "rows", "export_ret", "done"}) =>
          /\ Len(all_results) = 2 * Len(test_sizes)
          /\ \A i \in 1..Len(all_results) :
                all_results[i].ticks_processed = test_sizes[(i + 1) \div 2]

\* C16: consumer exit condition: consumerThread leaves its loop only from
\* an empty() that returned true, called only after producer_done was read
\* as true, read only after a pop that returned no value, all in one
\* iteration; a false flag, or a true flag with a false empty(), leads to the
\* yield and from there to the next pop.  Whenever the consumer has left the
\* loop, the producer has completed all num_ticks pushes and no value is
\* left unpopped.
C16_ExitCondition ==
    [][ /\ (c_at' = "stop" /\ c_at # "stop")
              => /\ c_at = "in_empty" /\ c_pc = "empty_ret" /\ c_empty
                 /\ producer_done /\ c_ret = NullOpt
        /\ (c_at' = "in_empty" /\ c_at # "in_empty") => c_at = "call_empty"
        /\ (c_at' = "call_empty" /\ c_at # "call_empty")
              => c_at = "check_done" /\ producer_done /\ c_ret = NullOpt
        /\ (c_at' = "check_done" /\ c_at # "check_done")
              => c_at = "in_pop" /\ c_pc = "pop_ret" /\ c_ret = NullOpt
        /\ (c_at = "check_done" /\ c_at' # c_at /\ ~producer_done)
              => c_at' = "yield"
        /\ (c_at = "in_empty" /\ c_at' # c_at /\ ~c_empty) => c_at' = "yield"
        /\ (c_at = "yield" /\ c_at' # c_at) => c_at' = "loop"
        /\ (c_at = "loop" /\ c_at' # c_at) => c_at' = "in_pop"
        /\ ConsumerLeftLoop'
              => /\ p_at' = "finished" /\ p_i' = num_ticks'
                 /\ linked' = num_ticks' /\ Len(popped') = linked'
                 /\ QueueHoldsNothing'
      ]_vars

\* C16: the consumer has left the loop of a run of at least two records on
\* the pop without value, the flag and the empty() of one iteration.
C16_Witness ==
    /\ c_at = "stop"
    /\ num_ticks >= 2
    /\ c_ret = NullOpt /\ producer_done /\ c_empty
    /\ Len(popped) = num_ticks

\* A push has loaded tail_ into old_tail and has not returned.
OldTailLoaded == p_pc \in {"push_link", "push_store_tail"}

\* C17 as stated: free after unobservable: when pop deletes the former head
\* node, neither tail_ nor the old_tail of a push in progress refers to it;
\* and as long as the producer and the consumer use the queue tail_ refers
\* to a node that has not been deleted.
C17_FreeAfterUnobservable ==
    [][ /\ (dtor_at = "none" /\ c_pc = "pop_delete" /\ c_pc' # c_pc)
              => /\ tail_ # old_head
                 /\ ~(OldTailLoaded /\ old_tail = old_head)
        /\ dtor_at' = "none" => Live(tail_)'
      ]_vars

\* C17, amended: when pop deletes the former head node, no thread accesses
\* that node again: tail_ or the old_tail of a push in progress refers to it
\* only while that push is between its link (line 70) and its store of
\* tail_ (line 71), after its last access to the node; no field of a deleted
\* node is ever accessed, and whenever no push is at that point tail_ refers
\* to a node that has not been deleted.
C17_FreeAfterLastAccess ==
    [][ /\ (dtor_at = "none" /\ c_pc = "pop_delete" /\ c_pc' # c_pc)
              => ( (tail_ = old_head \/ (OldTailLoaded /\ old_tail = old_head))
                      => p_pc = "push_store_tail" )
        /\ (dtor_at' = "none" /\ p_pc' # "push_store_tail") => Live(tail_)'
        /\ ~fault'
      ]_vars

\* C17: the node tail_ refers to has been deleted by a pop while the push
\* that linked its successor has yet to store tail_.
C17_Witness ==
    /\ qtype = "spsc"
    /\ dtor_at = "none"
    /\ p_pc = "push_store_tail"
    /\ deleted[tail_] = 1
    /\ old_tail = tail_

\* The node whose field the consumer's next step in pop or empty accesses.
ConsumerAccess ==
    CASE c_pc \in {"pop_load_next", "empty_load_next"} -> {old_head}
      [] c_pc = "pop_read_data"                         -> {nxt}
      [] c_pc = "pop_delete"                            -> {old_head}
      [] OTHER                                          -> {}

\* The node a push in progress has allocated and not yet linked (line 70).
Unpublished ==
    IF p_pc \in {"push_init_next", "push_load_tail", "push_link"}
       THEN {new_node}
       ELSE {}

\* C18 as stated: the consumer stays off the tail: no step of pop or empty
\* changes tail_, and none accesses a field of the node tail_ refers to
\* unless the producer has published a successor link from that node.
C18_OffTail ==
    [][ (dtor_at = "none" /\ qtype = "spsc" /\ c_pc' # c_pc)
           => /\ tail_' = tail_
              /\ \A n \in ConsumerAccess : n = tail_ => next[n] # NoNode
      ]_vars

\* C18, amended: the consumer stays off the tail pointer and off unpublished
\* nodes: no step of pop or empty changes tail_; the node pointers pop and
\* empty work on come from head_ and from a next link, never from tail_; no
\* step accesses a node that a push has allocated and not yet linked; and
\* head_ is moved off a node, and the node deleted, only after the producer
\* has published a successor link from it.  Of the node tail_ refers to,
\* the consumer does load the next field and, once linked, read the data.
C18_OffTailPointer ==
    [][ (dtor_at = "none" /\ qtype = "spsc" /\ c_pc' # c_pc)
           => /\ tail_' = tail_
              /\ c_pc \in {"pop_load_head", "empty_load_head"}
                    => old_head' = head_
              /\ c_pc \in {"pop_load_next", "empty_load_next"}
                    => nxt' = next[old_head]
              /\ ConsumerAccess \cap Unpublished = {}
              /\ c_pc \in {"pop_store_head", "pop_delete"}
                    => next[old_head] # NoNode
      ]_vars

\* C18: after a first pop, the consumer is about to load the next field of
\* the node tail_ refers to, which has no successor, while a push has
\* allocated its node and not yet linked it.
C18_Witness ==
    /\ qtype = "spsc"
    /\ dtor_at = "none"
    /\ Len(popped) >= 1
    /\ c_pc = "pop_load_next" /\ old_head = tail_ /\ next[tail_] = NoNode
    /\ p_pc = "push_link"

\* A step writes tail_ or the next field of a node (its construction
\* included); a step writes head_ or deletes a node.
WritesTailSide ==
    \/ tail_' # tail_
    \/ Len(next') # Len(next)
    \/ \E n \in 1..Len(next) : next'[n] # next[n]
WritesHeadSide ==
    \/ head_' # head_
    \/ \E n \in 1..Len(deleted) : deleted'[n] # deleted[n]

\* C19 as stated: single-writer partition: after construction tail_ and the
\* next fields are written by steps of the producer thread only, a next
\* field that holds a node is never changed again, and head_ is written and
\* nodes are deleted by steps of the consumer thread only.
C19_SingleWriter ==
    [][ /\ WritesTailSide => ProducerThread
        /\ WritesHeadSide => ConsumerThread
        /\ \A n \in 1..Len(next) : next[n] # NoNode => next'[n] = next[n]
      ]_vars

\* C19, amended: as stated while the producer and consumer threads run;
\* after both have finished, the thread that owns the queue writes head_ and
\* deletes the remaining nodes in ~SPSCQueue.
C19_SingleWriterUntilDestroyed ==
    [][ /\ WritesTailSide => ProducerThread
        /\ WritesHeadSide =>
              \/ ConsumerThread
              \/ /\ HarnessThread
                 /\ p_at = "finished" /\ c_at = "finished"
                 /\ h_pc = "in_dtor"
        /\ \A n \in 1..Len(next) : next[n] # NoNode => next'[n] = next[n]
      ]_vars

\* C19: in a run, the producer is about to store tail_ while the consumer,
\* having popped before, is about to delete a node.
C19_Witness ==
    /\ qtype = "spsc"
    /\ p_at = "in_push" /\ p_pc = "push_store_tail"
    /\ c_at = "in_pop" /\ c_pc = "pop_delete"
    /\ Len(popped) >= 1

\* All num_ticks pushes have fully completed: every value is linked, the
\* last push has returned and tail_ is on the last node allocated.
AllPushesComplete ==
    /\ p_i = num_ticks
    /\ Len(pushed) = num_ticks /\ linked = num_ticks
    /\ p_pc = "idle"
    /\ qtype = "spsc" => (Len(next) = num_ticks + 1 /\ tail_ = Len(next))

\* C20: the termination flag is write-once and ordered after the last push:
\* producer_done starts false; it changes only from false to true, only by
\* producerThread's store after its loop, and the producer ends with it
\* set; once true it stays true; whenever it is true all num_ticks pushes
\* have fully completed; no step of the consumer changes it.
C20_FlagWriteOnce ==
    /\ ~producer_done
    /\ [][ /\ producer_done => producer_done'
           /\ producer_done' # producer_done
                 => /\ p_at = "loop" /\ p_at' = "finished"
                    /\ ProducerThread /\ ~ConsumerThread
           /\ p_at' = "finished" => producer_done'
           /\ producer_done' => AllPushesComplete'
         ]_vars

\* C20: the flag is set in a run of at least two records while the consumer
\* is still in a pop with values left to take.
C20_Witness ==
    /\ producer_done
    /\ num_ticks >= 2
    /\ c_at = "in_pop"
    /\ Len(popped) < num_ticks

\* The nodes that were passed to delete.
DeletedNodes == {n \in 1..Len(deleted) : deleted[n] > 0}

\* The node head_ refers to is the constructor's sentinel or carries a
\* value a pop has returned.
HeadReturned ==
    \/ head_ = 1
    \/ /\ head_ - 1 \in 1..Len(popped)
       /\ data[head_] = popped[head_ - 1]

\* The node head_ refers to carries the value the pop in progress has copied
\* out (line 88) and returns in its next step (lines 94-96).
HeadBeingReturned ==
    /\ c_pc = "pop_delete"
    /\ head_ = nxt
    /\ head_ - 1 = Len(popped) + 1
    /\ data[head_] = c_val

\* What holds of the deleted nodes, and of each delete, in C21.
DeletesLagByOne ==
    /\ [](qtype = "spsc" =>
            /\ \A n \in 1..Len(deleted) : deleted[n] <= 1
            /\ dtor_at # "destroyed" =>
                  /\ Live(head_)
                  /\ DeletedNodes = 1..Len(popped)
            /\ dtor_at = "destroyed" =>
                  DeletedNodes = 1..(Len(popped) + 1))
    /\ [][ /\ (c_pc = "pop_delete" /\ c_pc' = "pop_ret")
                 => /\ DeletedNodes' \ DeletedNodes = {Len(popped) + 1}
                    /\ Len(popped') = Len(popped) + 1
                    /\ data[Len(popped') + 1] = popped'[Len(popped')]
                    /\ deleted'[Len(popped') + 1] = 0
                    /\ head_' = Len(popped') + 1
           /\ DeletedNodes' # DeletedNodes
                 => \/ c_pc = "pop_delete" /\ c_pc' = "pop_ret"
                    \/ dtor_at = "delete" /\ dtor_at' = "destroyed"
         ]_vars

\* C21 as stated: dummy-head lifetime: as long as the SPSCQueue exists,
\* head_ refers to a node that has not been deleted and whose payload is the
\* sentinel's or a value already returned by pop; after k successful pops
\* exactly k nodes have been deleted, the first k allocated, each once; the
\* pop that returns the k-th value deletes the node before the one carrying
\* it, and the node carrying it is deleted by the next successful pop, or by
\* the destructor's final delete.
C21_DummyHeadReturned ==
    /\ DeletesLagByOne
    /\ []((qtype = "spsc" /\ dtor_at # "destroyed") => HeadReturned)

\* C21, amended: as stated, except that from a pop's store of head_ (line
\* 91) to its return (line 96) head_ refers to the node whose value that pop
\* has copied out and is about to return, not one already returned.
C21_DummyHead ==
    /\ DeletesLagByOne
    /\ []((qtype = "spsc" /\ dtor_at # "destroyed") =>
             /\ HeadReturned \/ HeadBeingReturned
             /\ c_pc # "pop_delete" => HeadReturned)

\* C21: one pop has returned a value and the next has moved head_ to the
\* node carrying the second value, which it has yet to return; one node is
\* deleted, and a third value is queued behind head_.
C21_Witness ==
    /\ qtype = "spsc"
    /\ dtor_at = "none"
    /\ Len(popped) = 1
    /\ c_pc = "pop_delete"
    /\ head_ = 3 /\ deleted[3] = 0
    /\ deleted[1] = 1 /\ deleted[2] = 0
    /\ next[head_] # NoNode

\* consumerThread is at a boundary of its loop: about to begin an iteration
\* (benchmark.cpp:44-45), or past the loop.
AtIterationBoundary == c_at \in {"loop", "stop", "finished"}

\* C22: per-record bookkeeping stays in step: at every boundary of the
\* consumer's loop the tracker's sample count, the analytics engine's tick
\* count and the meter's item count all equal the number of successful pops
\* so far; and once runBenchmark has collected its results,
\* results.ticks_processed equals num_ticks, for both queue types.
C22_BookkeepingInStep ==
    /\ AtIterationBoundary =>
          /\ getCount = Len(popped)
          /\ tick_count_ = Len(popped)
          /\ getItemCount = Len(popped)
    /\ h_pc \in {"destroy", "in_dtor", "returned"} =>
          ticks_processed = num_ticks

\* C22: runBenchmark has returned from a run of at least two records with
\* all three counts and ticks_processed on num_ticks.
C22_Witness ==
    /\ h_pc = "returned"
    /\ num_ticks >= 2
    /\ ticks_processed = num_ticks
    /\ tick_count_ = num_ticks /\ item_count_ = num_ticks
    /\ Len(latencies_micros_) = num_ticks

\* A step changes the state of the object.
Changed(o) ==
    CASE o = "queue" ->
            << head_, tail_, data, next, deleted, queue_, mutex_ >>'
               # << head_, tail_, data, next, deleted, queue_, mutex_ >>
      [] o = "producer_done"   -> producer_done' # producer_done
      [] o = "analytics"       -> tick_count_' # tick_count_
      [] o = "latency_tracker" -> latencies_micros_' # latencies_micros_
      [] o = "throughput" ->
            << item_count_, running_, start_time_, end_time_ >>'
               # << item_count_, running_, start_time_, end_time_ >>

\* A step is the call of runBenchmark, which constructs the run's objects.
IsRunCall == x_pc \in {"loop", "mutex_run"} /\ x_pc' \in {"in_lockfree", "in_mutex"}

\* C23: thread confinement in a run, and runs one after another: the state
\* of a run's object changes only in its construction or in a step of a
\* thread at a position that accesses it; the producer never accesses the
\* tracker, the meter or the analytics engine, the harness accesses them
\* only after both joins have returned, so that while the producer or the
\* consumer thread is alive only the queue and the done flag are accessed by
\* more than one thread; a thread is alive only inside a call of
\* runBenchmark between its launches and its joins, and the sweep calls
\* runBenchmark again only when no thread is alive.
C23_Confinement ==
    /\ [](/\ ProducerAccesses \subseteq {"queue", "producer_done"}
          /\ (ThreadAlive(p_at) \/ ThreadAlive(c_at)) =>
                /\ HarnessAccesses = {}
                /\ x_pc \in {"in_lockfree", "in_mutex"}
                /\ h_pc \in {"spawn_consumer", "join_producer",
                             "join_consumer"}
          /\ HarnessAccesses # {} =>
                /\ p_at = "finished" /\ c_at = "finished"
                /\ h_pc \notin {"spawn_producer", "spawn_consumer",
                                "join_producer", "join_consumer"})
    /\ [][ /\ \A o \in RunObjects :
                Changed(o) =>
                   \/ IsRunCall
                   \/ ProducerThread /\ o \in ProducerAccesses
                   \/ ConsumerThread /\ o \in ConsumerAccesses
                   \/ HarnessThread /\ o \in HarnessAccesses
           /\ \A o \in {"analytics", "latency_tracker", "throughput"} :
                Changed(o) =>
                   \/ IsRunCall
                   \/ ConsumerThread /\ ThreadAlive(c_at)
           /\ IsRunCall => ~ThreadAlive(p_at) /\ ~ThreadAlive(c_at)
         ]_vars

\* C23: in the second run of the sweep both threads are alive, inside the
\* queue at the same time, the consumer having recorded a tick before.
C23_Witness ==
    /\ x_pc = "in_mutex"
    /\ Len(all_results) >= 1
    /\ p_at = "in_push" /\ c_at = "in_pop"
    /\ Len(latencies_micros_) >= 1 /\ item_count_ >= 1
    /\ "queue" \in ProducerAccesses \cap ConsumerAccesses

\* C24: producer progress is independent of the consumer on the lock-free
\* path: with the SPSCQueue a live producer thread and a live consumer
\* thread can always take their next step (no step of push, pop or empty
\* waits for the other thread), the consumer is at its yield only after a
\* pop that returned no value, and the producer, scheduled again and again,
\* completes all num_ticks pushes and sets the flag whatever the consumer
\* does, runs in which the consumer takes no step included.
C24_ProducerProgress ==
    /\ [](qtype = "spsc" =>
            /\ ThreadAlive(p_at) => ENABLED ProducerThread
            /\ ThreadAlive(c_at) => ENABLED ConsumerThread
            /\ c_at = "yield" => c_ret = NullOpt)
    /\ [][c_at' = "yield" /\ c_at # "yield"
             => c_at \in {"check_done", "in_empty"} /\ c_ret = NullOpt]_vars
    /\ (qtype = "spsc" => <>(producer_done /\ AllPushesComplete))

\* C24: the producer has completed a run's pushes, at least two, and set the
\* flag while the launched consumer thread has not taken a step.
C24_Witness ==
    /\ qtype = "spsc"
    /\ num_ticks >= 2
    /\ producer_done /\ AllPushesComplete
    /\ p_at = "finished"
    /\ c_at = "start" /\ ~started /\ popped = << >>

\* The queries of LatencyTracker.
TrackerQueries ==
    {"getPercentile", "getP50", "getP99", "getP999", "getMean", "getMin",
     "getMax", "getCount"}

\* C25: tracker queries are read-only and the store is append-only: a call
\* of getPercentile, getP50, getP99, getP999, getMean, getMin, getMax or
\* getCount leaves the stored samples as they were, content and order;
\* addLatency(l) leaves them followed by l; reset() leaves none; and the
\* samples change in no other call, so only reset() removes any.
C25_ReadOnlyQueries ==
    [][ LET call == u_call'
            s    == latencies_micros_
        IN  /\ Head(call) \in TrackerQueries => latencies_micros_' = s
            /\ Head(call) = "addLatency" =>
                  latencies_micros_' = Append(s, call[2])
            /\ Head(call) = "reset" => latencies_micros_' = << >>
            /\ latencies_micros_' # s => Head(call) \in {"addLatency", "reset"}
            /\ ~IsPrefix(s, latencies_micros_') => Head(call) = "reset"
      ]_vars

\* C25: getPercentile has returned the median of three samples that are
\* stored out of order, and they still are stored in that order.
C25_Witness ==
    /\ latencies_micros_ = << 3, 1, 2 >>
    /\ u_call = << "getPercentile", 500 >>
    /\ u_ret = << 2 >>

\* What a ThroughputMeter call does to the counter and to running_, sums
\* being taken by plus(a, b): start() discards the count and sets running_,
\* stop() keeps the count and clears running_, addItem() and addItems(count)
\* add 1 and count whether the meter runs or not, the queries change
\* nothing, and getItemCount() returns the counter.  The counter is 0 at
\* construction, so it is the total, by plus, of the amounts added since
\* the most recent start(), or since construction.
CounterStep(plus(_, _)) ==
    LET call == u_call'
    IN  /\ Head(call) = "start" => item_count_' = 0 /\ running_'
        /\ Head(call) = "stop" => item_count_' = item_count_ /\ ~running_'
        /\ Head(call) = "addItem" =>
              /\ item_count_' = plus(item_count_, 1)
              /\ running_' = running_
        /\ Head(call) = "addItems" =>
              /\ item_count_' = plus(item_count_, call[2])
              /\ running_' = running_
        /\ Head(call) \in {"getThroughput", "getElapsedSeconds",
                           "getItemCount"} =>
              /\ item_count_' = item_count_
              /\ running_' = running_
        /\ Head(call) = "getItemCount" => u_ret' = << item_count_ >>

\* The sum of two amounts, and their sum as size_t holds it.
ExactSum(a, b) == a + b
SizeTSum(a, b) == (a + b) % 2^SizeBits

\* C26 as stated: meter counter semantics: getItemCount() equals the total
\* of the addItem/addItems amounts since the most recent start(), or since
\* construction; start() discards the count and sets running, stop() keeps
\* it and clears running, and items added after stop() are counted.
C26_CounterTotal ==
    /\ item_count_ = 0
    /\ [][CounterStep(ExactSum)]_vars

\* C26, amended: as stated, the total being taken in size_t arithmetic:
\* getItemCount() equals the total of the amounts modulo 2^64 (2^SizeBits
\* here), which is the total as long as that is at most the largest size_t.
C26_CounterTotalModular ==
    /\ item_count_ = 0
    /\ [][CounterStep(SizeTSum)]_vars

\* C26: on a meter that was started and stopped with two items counted,
\* addItems of the largest size_t has left a count of one.
C26_Witness ==
    /\ started /\ ~running_
    /\ u_call = << "addItems", SizeMax >>
    /\ item_count_ = 1

\* The nodes met from node n by following next, at most fuel of them.
RECURSIVE ChainFrom(_, _)
ChainFrom(n, fuel) ==
    IF n = NoNode \/ fuel = 0
       THEN << >>
       ELSE << n >> \o ChainFrom(next[n], fuel - 1)

\* The nodes reachable from head_: all of them when the links do not loop.
Chain == ChainFrom(head_, Len(next))

\* The chain is finite, acyclic and null-terminated: no node occurs twice
\* and the last one has no successor.
ChainWellFormed ==
    /\ Chain # << >>
    /\ \A i, j \in 1..Len(Chain) : Chain[i] = Chain[j] => i = j
    /\ next[Chain[Len(Chain)]] = NoNode

\* The values of the chain's nodes after the head.
ChainValues == [i \in 1..(Len(Chain) - 1) |-> data[Chain[i + 1]]]

\* The nodes allocated and not deleted.
LiveNodes == {n \in 1..Len(deleted) : deleted[n] = 0}

\* 1 while a push has allocated its node and not yet linked it (lines
\* 65-70); 1 while a pop has stored head_ and not yet deleted the former
\* head node (lines 91-94).
UnlinkedNodes == IF Unpublished # {} THEN 1 ELSE 0
UndeletedHeads == IF c_pc = "pop_delete" THEN 1 ELSE 0

\* The list as C27 describes it when k values count as popped: the chain
\* holds the values linked by a push and not popped, in push order; the
\* live nodes number these values plus one, plus the given extra; and tail_
\* is on the chain's last node whenever no push is in progress.
ListShape(k, extra) ==
    /\ ChainWellFormed
    /\ ChainValues = SubSeq(pushed, k + 1, linked)
    /\ Cardinality(LiveNodes) = (linked - k) + 1 + extra
    /\ p_pc \in {"idle", "push_ret"} => tail_ = Chain[Len(Chain)]

\* C27 as stated: structural invariant of the SPSCQueue list: as long as the
\* queue exists the nodes reachable from head_ form a finite, acyclic,
\* null-terminated chain whose nodes after the head hold exactly the
\* pushed-but-not-yet-popped values in push order; the live nodes number
\* those values plus one, plus one more only while a push has allocated its
\* node but not yet linked it; and tail_ is on the last node of the chain
\* whenever no push is in progress.  A value counts as popped from pop's
\* return, or else from pop's store of head_: neither reading holds.
C27_ListShape ==
    (qtype = "spsc" /\ dtor_at # "destroyed") =>
        \/ ListShape(Len(popped), UnlinkedNodes)
        \/ ListShape(Len(popped) + UndeletedHeads, UnlinkedNodes)

\* C27, amended: as stated, a value counting as popped from pop's store of
\* head_ (line 91), and the live nodes numbering one more also while a pop
\* has stored head_ but not yet deleted the former head node (line 94).
C27_ListShapeWithOldHead ==
    (qtype = "spsc" /\ dtor_at # "destroyed") =>
        ListShape(Len(popped) + UndeletedHeads,
                  UnlinkedNodes + UndeletedHeads)

\* C27: a pop has stored head_ and not yet deleted the former head, a push
\* has allocated its node and not yet linked it, and a value is queued
\* behind head_: three more live nodes than queued values.
C27_Witness ==
    /\ qtype = "spsc"
    /\ dtor_at = "none"
    /\ c_pc = "pop_delete"
    /\ p_pc = "push_link"
    /\ Len(Chain) = 2
    /\ Cardinality(LiveNodes) = 4

=============================================================================
